---- MODULE Spec2Model ----
(***************************************************************************)
(* JSON Typedef validation (json-typedef-js): the validation engine of     *)
(* src/src/validate.ts as a state machine.  One call of validate() is run  *)
(* step by step: the ValidationState record (errors, instanceTokens,       *)
(* schemaTokens), the chain of active validateWithState calls, and the     *)
(* exception in flight are the state.                                      *)
(*                                                                         *)
(* JSON values are records tagged by k: null, boolean, number, string,     *)
(* array (a sequence) and object (the sequence of its [key, value]         *)
(* entries in Object.entries order).  Schemas are records that carry       *)
(* exactly the keywords the JSON schema carries, so `"ref" in schema` is   *)
(* "ref" \in DOMAIN schema.                                                *)
(***************************************************************************)
EXTENDS Integers, Sequences, FiniteSets, TLC

VARIABLES
  schema,     \* the schema argument of validate (state.root)
  instance,   \* the instance argument of validate
  config,     \* the config argument: <<>> when omitted, <<c>> when given
  state,      \* ValidationState: errors, instanceTokens, schemaTokens
  stack,      \* active validateWithState calls, outermost first
  thrown,     \* the exception being propagated, or "none"
  pc,         \* position in validate: idle, run, catch, ret, done
  result,     \* outcome of the call in progress or just finished
  last        \* arguments and outcome of the previous finished call

vars == <<schema, instance, config, state, stack, thrown, pc, result, last>>

-----------------------------------------------------------------------------
(* Bounds of the model *)

\* largest maxDepth a caller passes
MaxDepthCfg == 5
\* largest maxErrors a caller passes
MaxErrorsCfg == 3
\* longest array instance
MaxLen == 5
\* longest chain of nested refs in a schema without a cycle
MaxChain == 3
\* deepest chain of validateWithState calls the model follows
MaxStack == 7
\* deepest nesting of sub-schemas in the schemas passed to isValidSchema
MaxNest == 2

-----------------------------------------------------------------------------
(* JSON values *)

Null == [k |-> "null"]
Bool(b) == [k |-> "boolean", b |-> b]
\* a number hi * 65536 + lo (+ 1/2 when half), so that the uint32 range fits
Num(hi, lo, half) == [k |-> "number", hi |-> hi, lo |-> lo, half |-> half]
IntNum(n) == Num(0, n, FALSE)
Str(s) == [k |-> "string", s |-> s]
Arr(a) == [k |-> "array", a |-> a]
Obj(entries) == [k |-> "object", o |-> entries]

\* instance === null
isNull(v) == v.k = "null"

\* typeof instance === "object" && instance !== null && !Array.isArray(instance)
isObject(v) == v.k = "object"

\* instance.hasOwnProperty(name)
hasOwnProperty(v, name) == \E i \in 1..Len(v.o) : v.o[i][1] = name

\* instance[name], for a name the object has
getProperty(v, name) ==
  LET i == CHOOSE j \in 1..Len(v.o) : v.o[j][1] = name IN v.o[i][2]

\* instance.hasOwnProperty resolves to Object.prototype.hasOwnProperty
\* unless the instance has a key of that name: then it is a JSON value and
\* calling it throws TypeError
hasOwnPropertyIsFunction(v) ==
  ~\E i \in 1..Len(v.o) : v.o[i][1] = "hasOwnProperty"

\* the own keys of a properties / optionalProperties / mapping object
hasKey(entries, name) == \E i \in 1..Len(entries) : entries[i][1] = name

getKey(entries, name) ==
  LET i == CHOOSE j \in 1..Len(entries) : entries[j][1] = name IN entries[i][2]

\* what every object inherits from Object.prototype
ObjectPrototypeKeys ==
  {"constructor", "hasOwnProperty", "isPrototypeOf", "propertyIsEnumerable",
   "toLocaleString", "toString", "valueOf", "__proto__"}

\* name in object: own keys and inherited ones
inOperator(entries, name) == hasKey(entries, name) \/ name \in ObjectPrototypeKeys

\* an inherited member read where a schema is expected: a function object,
\* which has no nullable and none of the keywords
InheritedMember == <<>>

\* object[name]
member(entries, name) ==
  IF hasKey(entries, name) THEN getKey(entries, name) ELSE InheritedMember

-----------------------------------------------------------------------------
(* Schema forms: src/src/schema.ts *)

\* const { definitions, nullable, metadata, ...rest } = schema;
\* Object.keys(rest).length === 0
isEmptyForm(s) == DOMAIN s \ {"definitions", "nullable", "metadata"} = {}

isRefForm(s) == "ref" \in DOMAIN s
isTypeForm(s) == "type" \in DOMAIN s
isEnumForm(s) == "enum" \in DOMAIN s
isElementsForm(s) == "elements" \in DOMAIN s
isPropertiesForm(s) == "properties" \in DOMAIN s \/ "optionalProperties" \in DOMAIN s
isValuesForm(s) == "values" \in DOMAIN s
isDiscriminatorForm(s) == "discriminator" \in DOMAIN s

\* (mutant) nullable honoured only where the ref form is not dispatched first
nullableUnlessRef(s) == "nullable" \in DOMAIN s /\ s.nullable /\ ~isRefForm(s)

\* schema.nullable, read as a condition (undefined is falsy)
nullable(s) == "nullable" \in DOMAIN s /\ s.nullable

\* the branch the if / else-if chain of validateWithState takes
formOf(s) ==
  IF isRefForm(s) THEN "ref"
  ELSE IF isTypeForm(s) THEN "type"
  ELSE IF isEnumForm(s) THEN "enum"
  ELSE IF isElementsForm(s) THEN "elements"
  ELSE IF isPropertiesForm(s) THEN "properties"
  ELSE IF isValuesForm(s) THEN "values"
  ELSE IF isDiscriminatorForm(s) THEN "discriminator"
  ELSE "empty"

-----------------------------------------------------------------------------
(* ValidationState and its helpers: src/src/validate.ts *)

\* config || { maxDepth: 0, maxErrors: 0 }
effectiveConfig(c) == IF c = <<>> THEN [maxDepth |-> 0, maxErrors |-> 0] ELSE c[1]

\* (mutant) the state kept in one object shared by all calls
newStateShared(s, c) ==
  [errors |-> state.errors, instanceTokens |-> state.instanceTokens,
   schemaTokens |-> state.schemaTokens, root |-> s, config |-> effectiveConfig(c)]

\* the state validate() builds before the walk
newState(s, c) ==
  [errors |-> <<>>, instanceTokens |-> <<>>, schemaTokens |-> <<(<<>>)>>,
   root |-> s, config |-> effectiveConfig(c)]

pushInstanceToken(st, token) ==
  [st EXCEPT !.instanceTokens = Append(@, token)]

popInstanceToken(st) ==
  [st EXCEPT !.instanceTokens = SubSeq(@, 1, Len(@) - 1)]

pushSchemaToken(st, token) ==
  [st EXCEPT !.schemaTokens[Len(st.schemaTokens)] = Append(@, token)]

popSchemaToken(st) ==
  [st EXCEPT !.schemaTokens[Len(st.schemaTokens)] = SubSeq(@, 1, Len(@) - 1)]

\* (mutant) the new frame begun as a copy of the referring path
pushSchemaFrameInherit(st, ref) ==
  [st EXCEPT !.schemaTokens =
     Append(@, st.schemaTokens[Len(st.schemaTokens)] \o <<"definitions", ref>>)]

\* state.schemaTokens.push(["definitions", schema.ref])
pushSchemaFrame(st, ref) ==
  [st EXCEPT !.schemaTokens = Append(@, <<"definitions", ref>>)]

\* state.schemaTokens.pop()
popSchemaFrame(st) ==
  [st EXCEPT !.schemaTokens = SubSeq(@, 1, Len(@) - 1)]

\* (mutant) the error put in front of the list, with unshift
pushErrorInFront(st) ==
  [st EXCEPT !.errors =
     << [instancePath |-> st.instanceTokens,
         schemaPath |-> st.schemaTokens[Len(st.schemaTokens)]] >> \o @]

\* the push of pushError: a copy of both current paths
pushError(st) ==
  [st EXCEPT !.errors = Append(@,
     [instancePath |-> st.instanceTokens,
      schemaPath |-> st.schemaTokens[Len(st.schemaTokens)]])]

\* (mutant) the cutoff tested with > instead of ===
maxErrorsReachedLate(st) ==
  "maxErrors" \in DOMAIN st.config /\ Len(st.errors) > st.config.maxErrors

\* state.errors.length === state.config.maxErrors (undefined equals no length)
maxErrorsReached(st) ==
  "maxErrors" \in DOMAIN st.config /\ Len(st.errors) = st.config.maxErrors

\* (mutant) the depth tested with >= instead of ===
maxDepthReachedAtLeast(st) ==
  "maxDepth" \in DOMAIN st.config /\ Len(st.schemaTokens) >= st.config.maxDepth

\* (mutant) the depth read off the instance path instead of the ref frames
maxDepthReachedInstance(st) ==
  "maxDepth" \in DOMAIN st.config /\ Len(st.instanceTokens) = st.config.maxDepth

\* state.schemaTokens.length === state.config.maxDepth
maxDepthReached(st) ==
  "maxDepth" \in DOMAIN st.config /\ Len(st.schemaTokens) = st.config.maxDepth

-----------------------------------------------------------------------------
(* Timestamps: src/src/rfc3339.ts.  A timestamp string is the sequence of   *)
(* its characters.                                                          *)

\* \d
isDigit(c) == c \in {"0", "1", "2", "3", "4", "5", "6", "7", "8", "9"}

digitValue(c) == CHOOSE d \in 0..9 : ToString(d) = c

\* parseInt(digits, 10) of a group of digits
RECURSIVE parseInt(_)
parseInt(digits) ==
  IF digits = <<>> THEN 0
  ELSE 10 * parseInt(SubSeq(digits, 1, Len(digits) - 1)) + digitValue(digits[Len(digits)])

allDigits(s, positions) == \A i \in positions : isDigit(s[i])

\* how many digits stand in s from position i on: what a greedy \d* takes
RECURSIVE digitsFrom(_, _)
digitsFrom(s, i) ==
  IF i <= Len(s) /\ isDigit(s[i]) THEN 1 + digitsFrom(s, i + 1) ELSE 0

\* ^(\d{4})-(\d{2})-(\d{2})[tT](\d{2}):(\d{2}):(\d{2}) at the start of s
matchesDateTime(s) ==
  /\ Len(s) >= 19
  /\ allDigits(s, {1, 2, 3, 4, 6, 7, 9, 10, 12, 13, 15, 16, 18, 19})
  /\ s[5] = "-" /\ s[8] = "-"
  /\ s[11] \in {"t", "T"}
  /\ s[14] = ":" /\ s[17] = ":"

\* (\.\d+)? from position i on: the position after it.  The group is taken
\* when a dot and a digit stand there; leaving it out or shortening it
\* cannot help the match, as what follows does not begin with a digit.
afterFraction(s, i) ==
  IF i + 1 <= Len(s) /\ s[i] = "." /\ isDigit(s[i + 1])
  THEN i + 1 + digitsFrom(s, i + 1)
  ELSE i

\* ([zZ]|((\+|-)(\d{2}):(\d{2})))$ from position i on
matchesOffset(s, i) ==
  \/ Len(s) = i /\ s[i] \in {"z", "Z"}
  \/ /\ Len(s) = i + 5
     /\ s[i] \in {"+", "-"}
     /\ allDigits(s, {i + 1, i + 2, i + 4, i + 5})
     /\ s[i + 3] = ":"

\* s.match(pattern) !== null
matchesPattern(s) == matchesDateTime(s) /\ matchesOffset(s, afterFraction(s, 20))

\* months are 1-indexed, the first element is a dummy; Feb is handled apart
MONTH_LENGTHS == <<0, 31, 0, 31, 30, 31, 30, 31, 31, 30, 31, 30, 31>>

isLeapYear(n) == n % 4 = 0 /\ (n % 100 # 0 \/ n % 400 = 0)

maxDay(year, month) ==
  IF month = 2 THEN (IF isLeapYear(year) THEN 29 ELSE 28)
  ELSE MONTH_LENGTHS[month + 1]

isRFC3339(s) ==
  IF ~matchesPattern(s) THEN FALSE
  ELSE LET year == parseInt(SubSeq(s, 1, 4))
           month == parseInt(SubSeq(s, 6, 7))
           day == parseInt(SubSeq(s, 9, 10))
           hour == parseInt(SubSeq(s, 12, 13))
           minute == parseInt(SubSeq(s, 15, 16))
           second == parseInt(SubSeq(s, 18, 19))
       IN IF month > 12 THEN FALSE
          ELSE IF day > maxDay(year, month) THEN FALSE
          ELSE IF hour > 23 THEN FALSE
          ELSE IF minute > 59 THEN FALSE
          ELSE IF second > 60 THEN FALSE
          ELSE TRUE

-----------------------------------------------------------------------------
(* Type form: src/src/validate.ts, the switch on schema.type *)

numLess(a, b) == a.hi < b.hi \/ (a.hi = b.hi /\ a.lo < b.lo)

\* (mutant) validateInt without the Number.isInteger test
validateIntAnyNumber(v, min, max) ==
  \/ v.k # "number"
  \/ numLess(v, min)
  \/ numLess(max, v)

\* the condition under which validateInt records an error
validateInt(v, min, max) ==
  \/ v.k # "number"
  \/ v.half
  \/ numLess(v, min)
  \/ numLess(max, v)

\* moment(instance, moment.ISO_8601).isValid(), for the strings the model
\* uses: a date YYYY-MM-DD alone, or followed by T or a space, a time
\* HH:MM:SS, an optional fraction and an optional offset Z, +HH:MM, +HHMM
\* or +HH.  moment takes the fields for a date and a time of day, with 24
\* for the hour at midnight only, and, as the comment at the call says,
\* does not support 60 in the seconds place.
momentIsValid(str) ==
  LET hasDate == /\ Len(str) >= 10
                 /\ allDigits(str, {1, 2, 3, 4, 6, 7, 9, 10})
                 /\ str[5] = "-" /\ str[8] = "-"
      hasTime == /\ Len(str) >= 19
                 /\ str[11] \in {"T", " "}
                 /\ allDigits(str, {12, 13, 15, 16, 18, 19})
                 /\ str[14] = ":" /\ str[17] = ":"
      tz == afterFraction(str, 20)
      hasOffset ==
        \/ Len(str) = tz - 1
        \/ Len(str) = tz /\ str[tz] = "Z"
        \/ /\ Len(str) \in {tz + 2, tz + 4, tz + 5}
           /\ str[tz] \in {"+", "-"}
           /\ allDigits(str, {tz + 1, tz + 2})
           /\ Len(str) = tz + 4 => allDigits(str, {tz + 3, tz + 4})
           /\ Len(str) = tz + 5 => str[tz + 3] = ":" /\ allDigits(str, {tz + 4, tz + 5})
      year == parseInt(SubSeq(str, 1, 4))
      month == parseInt(SubSeq(str, 6, 7))
      day == parseInt(SubSeq(str, 9, 10))
      hour == parseInt(SubSeq(str, 12, 13))
      minute == parseInt(SubSeq(str, 15, 16))
      second == parseInt(SubSeq(str, 18, 19))
      dateOk == month \in 1..12 /\ day >= 1 /\ day <= maxDay(year, month)
      timeOk == /\ minute <= 59 /\ second <= 59
                /\ hour <= 24
                /\ hour = 24 => (minute = 0 /\ second = 0 /\ tz = 20)
  IN /\ hasDate
     /\ IF Len(str) = 10 THEN dateOk
        ELSE hasTime /\ hasOffset /\ dateOk /\ timeOk

\* whether the case of schema.type calls pushError
typeRejects(type, v) ==
  CASE type = "boolean" -> v.k # "boolean"
    [] type \in {"float32", "float64"} -> v.k # "number"
    [] type = "int8" -> validateInt(v, Num(-1, 65408, FALSE), Num(0, 127, FALSE))
    [] type = "uint8" -> validateInt(v, Num(0, 0, FALSE), Num(0, 255, FALSE))
    [] type = "int16" -> validateInt(v, Num(-1, 32768, FALSE), Num(0, 32767, FALSE))
    [] type = "uint16" -> validateInt(v, Num(0, 0, FALSE), Num(0, 65535, FALSE))
    [] type = "int32" -> validateInt(v, Num(-32768, 0, FALSE), Num(32767, 65535, FALSE))
    [] type = "uint32" -> validateInt(v, Num(0, 0, FALSE), Num(65535, 65535, FALSE))
    [] type = "string" -> v.k # "string"
    [] type = "timestamp" -> v.k # "string" \/ ~momentIsValid(v.s)
    [] OTHER -> FALSE

-----------------------------------------------------------------------------
(* The arguments callers pass *)

\* the schema of the README's untrusted-schema example: a ref to itself
SelfRef == [definitions |-> [foo |-> [ref |-> "foo"]], ref |-> "foo"]

ChainName(i) == "d" \o ToString(i)

\* ref d1 -> d2 -> ... -> dn, and dn is {type: "string"}: n refs nested
Chain(n) ==
  [definitions |->
     [name \in {ChainName(i) : i \in 1..n} |->
        IF name = ChainName(n) THEN [type |-> "string"]
        ELSE LET i == CHOOSE j \in 1..n : ChainName(j) = name
             IN [ref |-> ChainName(i + 1)]],
   ref |-> ChainName(1)]

\* refs followed one after another: each element follows the same ref
ElementsRef == [definitions |-> [a |-> [type |-> "string"]],
                elements |-> [ref |-> "a"]]

ElementsString == [elements |-> [type |-> "string"]]

PersonProperties ==
  << <<"name", [type |-> "string"]>>, <<"age", [type |-> "uint32"]>> >>

PersonOptional == << <<"nick", [type |-> "string"]>> >>

Person == [properties |-> PersonProperties, optionalProperties |-> PersonOptional]

PersonStrict == Person @@ [additionalProperties |-> FALSE]

PersonOpen == Person @@ [additionalProperties |-> TRUE]

OnlyOptional == [optionalProperties |-> PersonOptional]

Shape ==
  [discriminator |-> "kind",
   mapping |-> << <<"a", [properties |-> << <<"x", [type |-> "string"]>> >>]>>,
                  <<"b", [optionalProperties |-> << <<"y", [type |-> "boolean"]>> >>,
                          additionalProperties |-> TRUE]>> >>]

\* a discriminator whose name is also a member of Object.prototype; the
\* selected schema has a properties-form schema nested under "x"
TaggedByValueOf ==
  [discriminator |-> "valueOf",
   mapping |-> << <<"a", [properties |->
                            << <<"x", [optionalProperties |-> <<>>]>> >>]>> >>]

\* the discriminator "kind" with a properties-form schema nested under "x"
\* and the same one behind elements
TaggedNested ==
  [discriminator |-> "kind",
   mapping |-> << <<"a", [properties |->
                            << <<"x", [optionalProperties |-> <<>>]>> >>,
                          optionalProperties |->
                            << <<"y", [elements |-> [properties |-> <<>>]]>> >>]>> >>]

\* a required property behind a ref, next to one validated in place
PersonRef ==
  [definitions |-> [d |-> [type |-> "boolean"]],
   properties |-> << <<"name", [ref |-> "d"]>>, <<"age", [type |-> "string"]>> >>]

\* the same with the property validated in place first and the ref last
PersonRefLast ==
  [definitions |-> [d |-> [type |-> "boolean"]],
   properties |-> << <<"name", [type |-> "boolean"]>>, <<"age", [ref |-> "d"]>> >>]

\* properties whose schemas can record more than one error each
PersonLists ==
  [properties |-> << <<"name", [elements |-> [type |-> "string"]]>>,
                     <<"age", [type |-> "string"]>> >>,
   optionalProperties |-> << <<"nick", [elements |-> [type |-> "boolean"]]>> >>]

\* one schema of each of the eight forms
Forms ==
  { <<>>, SelfRef, [type |-> "string"], [enum |-> <<"a", "b">>], ElementsString,
    Person, [values |-> [type |-> "string"]], Shape }

Schemas ==
  Forms \cup {f @@ [nullable |-> TRUE] : f \in Forms}
        \cup {Chain(n) : n \in 1..MaxChain}
        \cup {ElementsRef, PersonStrict, PersonOpen, OnlyOptional}
        \cup {TaggedByValueOf, TaggedNested, PersonRef, PersonRefLast, PersonLists}

Nulls(n) == Arr([i \in 1..n |-> Null])

Instances ==
  { Null, Bool(TRUE), IntNum(43), Str("a") }
    \cup {Nulls(n) : n \in 0..MaxLen}
    \cup { Obj(<<>>),
           Obj(<< <<"age", Str("43")>> >>),
           Obj(<< <<"name", Str("a")>>, <<"age", IntNum(43)>>, <<"kind", Null>>,
                  <<"nick", Null>>, <<"zip", Null>> >>),
           Obj(<< <<"kind", Str("a")>>, <<"x", Null>>, <<"y", Null>> >>),
           Obj(<< <<"kind", Str("b")>>, <<"y", Bool(TRUE)>>, <<"z", Null>> >>),
           Obj(<< <<"kind", Str("zz")>>, <<"x", Null>> >>),
           Obj(<< <<"kind", IntNum(1)>>, <<"x", Null>> >>),
           Obj(<< <<"kind", Str("toString")>>, <<"x", Null>> >>),
           Obj(<< <<"name", Str("a")>>, <<"age", IntNum(43)>>, <<"toString", Null>> >>),
           Obj(<< <<"name", Str("a")>>, <<"hasOwnProperty", Null>> >>),
           Obj(<< <<"valueOf", Str("a")>>,
                  <<"x", Obj(<< <<"valueOf", Null>> >>)>> >>),
           Obj(<< <<"kind", Str("a")>>,
                  <<"x", Obj(<< <<"kind", Null>> >>)>>,
                  <<"y", Arr(<< Obj(<< <<"kind", Null>> >>) >>)>> >>),
           Obj(<< <<"zip", Null>>, <<"nick", Nulls(2)>>, <<"age", Null>>,
                  <<"name", Nulls(2)>>, <<"kind", Null>> >>) }

\* a config object; the README passes objects with one field only
ConfigObjects ==
  {[maxDepth |-> d, maxErrors |-> e] : d \in 0..MaxDepthCfg, e \in 0..MaxErrorsCfg}
    \cup {[maxDepth |-> d] : d \in 0..MaxDepthCfg}
    \cup {[maxErrors |-> e] : e \in 0..MaxErrorsCfg}

\* the config argument: omitted, or a config object
Configs == { <<>> } \cup { <<c>> : c \in ConfigObjects }

-----------------------------------------------------------------------------
(* validate(): src/src/validate.ts *)

NoResult == [kind |-> "none", errors |-> <<>>]

\* an active call validateWithState(state, schema, instance, parentTag):
\* parentTag is <<>> when the argument is left out, at is the position in
\* the body, i the loop index; entry remembers the state the call began in
Frame(st, s, v, tag) ==
  [schema |-> s, instance |-> v, parentTag |-> tag, at |-> "enter", i |-> 0,
   entry |-> [instanceTokens |-> st.instanceTokens,
              schemaTokens |-> st.schemaTokens]]

Top == stack[Len(stack)]

Init ==
  /\ schema \in Schemas
  /\ instance \in Instances
  /\ config = <<>>
  /\ state = [errors |-> <<>>, instanceTokens |-> <<>>, schemaTokens |-> <<(<<>>)>>,
              root |-> schema, config |-> effectiveConfig(<<>>)]
  /\ stack = <<>>
  /\ thrown = "none"
  /\ pc = "idle"
  /\ result = NoResult
  /\ last = [config |-> <<>>, result |-> NoResult]

\* the maxDepth a config argument carries, <<>> when it carries none
depthOf(c) ==
  IF c # <<>> /\ "maxDepth" \in DOMAIN c[1] THEN <<c[1].maxDepth>> ELSE <<>>

\* validate(schema, instance, config) builds the state and enters
\* validateWithState(state, schema, instance).  The caller (Validate below)
\* validates its schema and instance again and again; from one call to the
\* next it keeps maxDepth and is free in everything else.
StartValidate(c) ==
  /\ config' = c
  /\ state' = newState(schema, c)
  /\ stack' = <<Frame(newState(schema, c), schema, instance, <<>>)>>
  /\ thrown' = "none"
  /\ pc' = "run"
  /\ result' = NoResult
  /\ last' = [config |-> config, result |-> result]
  /\ UNCHANGED <<schema, instance>>

Validate(c) ==
  /\ pc = "idle" \/ (pc = "done" /\ depthOf(c) = depthOf(config))
  /\ StartValidate(c)

\* the walk ended without an exception: return state.errors
ValidateReturn ==
  /\ pc = "ret"
  /\ result' = [kind |-> "returned", errors |-> state.errors]
  /\ pc' = "done"
  /\ UNCHANGED <<schema, instance, config, state, stack, thrown, last>>

\* the catch clause: MaxErrorsReachedError is swallowed, anything else is
\* thrown again
ValidateCatch ==
  /\ pc = "catch"
  /\ IF thrown = "MaxErrorsReachedError"
     THEN /\ thrown' = "none"
          /\ pc' = "ret"
          /\ result' = result
     ELSE /\ thrown' = "none"
          /\ pc' = "done"
          /\ result' = [kind |-> thrown, errors |-> <<>>]
  /\ UNCHANGED <<schema, instance, config, state, stack, last>>

-----------------------------------------------------------------------------
(* Control transfers of validateWithState *)

Running(at) == pc = "run" /\ stack # <<>> /\ Top.at = at

\* an exception leaves every active call and reaches validate's catch
Throw(st, exception) ==
  /\ state' = st
  /\ thrown' = exception
  /\ stack' = <<>>
  /\ pc' = "catch"
  /\ UNCHANGED <<schema, instance, config, result, last>>

\* the call on top returns to its caller
Return(st) ==
  /\ state' = st
  /\ stack' = SubSeq(stack, 1, Len(stack) - 1)
  /\ pc' = IF Len(stack) = 1 THEN "ret" ELSE "run"
  /\ UNCHANGED <<schema, instance, config, thrown, result, last>>

\* the call on top moves on inside its body
Goto(st, at, i) ==
  /\ state' = st
  /\ stack' = [stack EXCEPT ![Len(stack)] = [@ EXCEPT !.at = at, !.i = i]]
  /\ UNCHANGED <<schema, instance, config, thrown, pc, result, last>>

\* the call on top calls validateWithState(state, s, v, tag) and will go on
\* at `at` when that returns
Call(st, at, s, v, tag) ==
  /\ Len(stack) < MaxStack
  /\ state' = st
  /\ stack' = Append([stack EXCEPT ![Len(stack)] = [@ EXCEPT !.at = at]],
                     Frame(st, s, v, tag))
  /\ UNCHANGED <<schema, instance, config, thrown, pc, result, last>>

\* (mutant) the limit compared with the length before the push
PushErrorThenTestedBefore(st, Otherwise) ==
  IF maxErrorsReached(st)
  THEN Throw(pushError(st), "MaxErrorsReachedError")
  ELSE Otherwise

\* pushError(state) at st: it throws, or the caller goes on with Otherwise
PushErrorThen(st, Otherwise) ==
  IF maxErrorsReached(pushError(st))
  THEN Throw(pushError(st), "MaxErrorsReachedError")
  ELSE Otherwise

-----------------------------------------------------------------------------
(* validateWithState: one action per stretch of the body between calls *)

\* if (schema.nullable && instance === null) return;
EnterNullable ==
  /\ Running("enter")
  /\ nullable(Top.schema) /\ isNull(Top.instance)
  /\ Return(state)

Entering(form) ==
  /\ Running("enter")
  /\ ~(nullable(Top.schema) /\ isNull(Top.instance))
  /\ formOf(Top.schema) = form

\* (mutant) the empty form with a branch of its own that refuses null
EnterEmptyRejectingNull ==
  /\ Entering("empty")
  /\ IF isNull(Top.instance)
     THEN PushErrorThen(state, Return(pushError(state)))
     ELSE Return(state)

\* a schema of no form falls through the whole if / else-if chain
EnterEmpty ==
  /\ Entering("empty")
  /\ Return(state)

\* ref form: the depth check, the new frame of schema tokens, the call.
\* state.root.definitions![schema.ref] throws TypeError when the root has
\* no definitions, is an inherited member for a name of Object.prototype
\* that is no key of definitions, and is undefined for any other missing
\* name: then the call throws TypeError at schema.nullable.
EnterRef ==
  /\ Entering("ref")
  /\ LET ref == Top.schema.ref
         st == pushSchemaFrame(state, ref)
     IN IF maxDepthReached(state)
        THEN Throw(state, "MaxDepthExceededError")
        ELSE IF "definitions" \notin DOMAIN state.root
        THEN Throw(st, "TypeError")
        ELSE IF ref \in DOMAIN state.root.definitions
        THEN Call(st, "refReturn", state.root.definitions[ref], Top.instance, <<>>)
        ELSE IF ref \in ObjectPrototypeKeys
        THEN Call(st, "refReturn", InheritedMember, Top.instance, <<>>)
        ELSE Throw(st, "TypeError")

\* state.schemaTokens.pop() after the referenced schema has been validated
RefReturn ==
  /\ Running("refReturn")
  /\ Return(popSchemaFrame(state))

\* type form
EnterType ==
  /\ Entering("type")
  /\ LET st == pushSchemaToken(state, "type")
         Done(x) == Return(popSchemaToken(x))
     IN IF typeRejects(Top.schema.type, Top.instance)
        THEN PushErrorThen(st, Done(pushError(st)))
        ELSE Done(st)

\* schema.enum.includes(instance)
enumIncludes(enum, v) == \E i \in 1..Len(enum) : enum[i] = v.s

\* enum form
EnterEnum ==
  /\ Entering("enum")
  /\ LET st == pushSchemaToken(state, "enum")
         Done(x) == Return(popSchemaToken(x))
     IN IF Top.instance.k # "string" \/ ~enumIncludes(Top.schema.enum, Top.instance)
        THEN PushErrorThen(st, Done(pushError(st)))
        ELSE Done(st)

\* elements form, up to the loop over instance.entries()
EnterElements ==
  /\ Entering("elements")
  /\ LET st == pushSchemaToken(state, "elements")
         Done(x) == Return(popSchemaToken(x))
     IN IF Top.instance.k = "array"
        THEN Goto(st, "elementsLoop", 1)
        ELSE PushErrorThen(st, Done(pushError(st)))

\* (mutant) the entries counted from one
indexTokenFromOne(i) == ToString(i)

\* index.toString() of the i-th entry
indexToken(i) == ToString(i - 1)

\* one turn of the loop: push the index, validate the element
ElementsLoop ==
  /\ Running("elementsLoop")
  /\ IF Top.i <= Len(Top.instance.a)
     THEN Call(pushInstanceToken(state, indexToken(Top.i)), "elementsNext",
               Top.schema.elements, Top.instance.a[Top.i], <<>>)
     ELSE Return(popSchemaToken(state))

\* (mutant) the loop without popInstanceToken after the element
ElementsNextWithoutPop ==
  /\ Running("elementsNext")
  /\ Goto(state, "elementsLoop", Top.i + 1)

ElementsNext ==
  /\ Running("elementsNext")
  /\ Goto(popInstanceToken(state), "elementsLoop", Top.i + 1)

\* values form, up to the loop over Object.entries(instance)
EnterValues ==
  /\ Entering("values")
  /\ LET st == pushSchemaToken(state, "values")
         Done(x) == Return(popSchemaToken(x))
     IN IF isObject(Top.instance)
        THEN Goto(st, "valuesLoop", 1)
        ELSE PushErrorThen(st, Done(pushError(st)))

ValuesLoop ==
  /\ Running("valuesLoop")
  /\ IF Top.i <= Len(Top.instance.o)
     THEN Call(pushInstanceToken(state, Top.instance.o[Top.i][1]), "valuesNext",
               Top.schema.values, Top.instance.o[Top.i][2], <<>>)
     ELSE Return(popSchemaToken(state))

ValuesNext ==
  /\ Running("valuesNext")
  /\ Goto(popInstanceToken(state), "valuesLoop", Top.i + 1)

\* properties form, up to the loop over the required properties
EnterProperties ==
  /\ Entering("properties")
  /\ LET Done(x) == Return(popSchemaToken(x))
         atProperties == pushSchemaToken(state, "properties")
         atOptional == pushSchemaToken(state, "optionalProperties")
     IN IF isObject(Top.instance)
        THEN IF "properties" \in DOMAIN Top.schema
             THEN Goto(atProperties, "requiredLoop", 1)
             ELSE Goto(state, "optionalStart", 0)
        ELSE IF "properties" \in DOMAIN Top.schema
             THEN PushErrorThen(atProperties, Done(pushError(atProperties)))
             ELSE PushErrorThen(atOptional, Done(pushError(atOptional)))

\* one turn of the loop over Object.entries(schema.properties)
RequiredLoop ==
  /\ Running("requiredLoop")
  /\ IF Top.i <= Len(Top.schema.properties)
     THEN LET name == Top.schema.properties[Top.i][1]
              subSchema == Top.schema.properties[Top.i][2]
              st == pushSchemaToken(state, name)
              Next(x) == Goto(popSchemaToken(x), "requiredLoop", Top.i + 1)
          IN IF ~hasOwnPropertyIsFunction(Top.instance)
             THEN Throw(st, "TypeError")
             ELSE IF hasOwnProperty(Top.instance, name)
             THEN Call(pushInstanceToken(st, name), "requiredNext",
                       subSchema, getProperty(Top.instance, name), <<>>)
             ELSE PushErrorThen(st, Next(pushError(st)))
     ELSE Goto(popSchemaToken(state), "optionalStart", 0)

RequiredNext ==
  /\ Running("requiredNext")
  /\ Goto(popSchemaToken(popInstanceToken(state)), "requiredLoop", Top.i + 1)

\* if (schema.optionalProperties !== undefined)
OptionalStart ==
  /\ Running("optionalStart")
  /\ IF "optionalProperties" \in DOMAIN Top.schema
     THEN Goto(pushSchemaToken(state, "optionalProperties"), "optionalLoop", 1)
     ELSE Goto(state, "additional", 0)

\* one turn of the loop over Object.entries(schema.optionalProperties)
OptionalLoop ==
  /\ Running("optionalLoop")
  /\ IF Top.i <= Len(Top.schema.optionalProperties)
     THEN LET name == Top.schema.optionalProperties[Top.i][1]
              subSchema == Top.schema.optionalProperties[Top.i][2]
              st == pushSchemaToken(state, name)
          IN IF ~hasOwnPropertyIsFunction(Top.instance)
             THEN Throw(st, "TypeError")
             ELSE IF hasOwnProperty(Top.instance, name)
             THEN Call(pushInstanceToken(st, name), "optionalNext",
                       subSchema, getProperty(Top.instance, name), <<>>)
             ELSE Goto(popSchemaToken(st), "optionalLoop", Top.i + 1)
     ELSE Goto(popSchemaToken(state), "additional", 0)

OptionalNext ==
  /\ Running("optionalNext")
  /\ Goto(popSchemaToken(popInstanceToken(state)), "optionalLoop", Top.i + 1)

\* the test that flags the instance key name as an additional property
isAdditional(s, name, parentTag) ==
  LET inRequired == "properties" \in DOMAIN s /\ inOperator(s.properties, name)
      inOptional == "optionalProperties" \in DOMAIN s
                      /\ inOperator(s.optionalProperties, name)
  IN ~inRequired /\ ~inOptional /\ <<name>> # parentTag

\* the loop over Object.keys(instance) from the i-th key on: the state it
\* ends in and whether pushError threw
RECURSIVE additionalLoop(_, _, _)
additionalLoop(st, f, i) ==
  IF i > Len(f.instance.o) THEN [state |-> st, threw |-> FALSE]
  ELSE LET name == f.instance.o[i][1]
       IN IF isAdditional(f.schema, name, f.parentTag)
          THEN LET st2 == pushError(pushInstanceToken(st, name))
               IN IF maxErrorsReached(st2) THEN [state |-> st2, threw |-> TRUE]
                  ELSE additionalLoop(popInstanceToken(st2), f, i + 1)
          ELSE additionalLoop(st, f, i + 1)

\* if (schema.additionalProperties !== true) { ... }, and the return
Additional ==
  /\ Running("additional")
  /\ IF "additionalProperties" \in DOMAIN Top.schema /\ Top.schema.additionalProperties
     THEN Return(state)
     ELSE LET end == additionalLoop(state, Top, 1)
          IN IF end.threw THEN Throw(end.state, "MaxErrorsReachedError")
             ELSE Return(end.state)

\* discriminator form
EnterDiscriminator ==
  /\ Entering("discriminator")
  /\ LET name == Top.schema.discriminator
         tag == getProperty(Top.instance, name)
         Done(x) == Return(popSchemaToken(x))
         DoneAtTag(x) == Return(popSchemaToken(popInstanceToken(x)))
         atDiscriminator == pushSchemaToken(state, "discriminator")
         atMapping == pushSchemaToken(state, "mapping")
         tagAtDiscriminator == pushInstanceToken(atDiscriminator, name)
         tagAtMapping == pushInstanceToken(atMapping, name)
     IN IF ~isObject(Top.instance)
        THEN PushErrorThen(atDiscriminator, Done(pushError(atDiscriminator)))
        ELSE IF ~hasOwnPropertyIsFunction(Top.instance)
        THEN Throw(state, "TypeError")
        ELSE IF ~hasOwnProperty(Top.instance, name)
        THEN PushErrorThen(atDiscriminator, Done(pushError(atDiscriminator)))
        ELSE IF tag.k # "string"
        THEN PushErrorThen(tagAtDiscriminator, DoneAtTag(pushError(tagAtDiscriminator)))
        ELSE IF ~inOperator(Top.schema.mapping, tag.s)
        THEN PushErrorThen(tagAtMapping, DoneAtTag(pushError(tagAtMapping)))
        ELSE Call(pushSchemaToken(atMapping, tag.s), "discriminatorReturn",
                  member(Top.schema.mapping, tag.s), Top.instance, <<name>>)

DiscriminatorReturn ==
  /\ Running("discriminatorReturn")
  /\ Return(popSchemaToken(popSchemaToken(state)))

-----------------------------------------------------------------------------

ValidateWithState ==
  \/ EnterNullable \/ EnterEmpty
  \/ EnterRef \/ RefReturn
  \/ EnterType \/ EnterEnum
  \/ EnterElements \/ ElementsLoop \/ ElementsNext
  \/ EnterProperties \/ RequiredLoop \/ RequiredNext
  \/ OptionalStart \/ OptionalLoop \/ OptionalNext \/ Additional
  \/ EnterValues \/ ValuesLoop \/ ValuesNext
  \/ EnterDiscriminator \/ DiscriminatorReturn

Next ==
  \/ \E c \in Configs : Validate(c)
  \/ ValidateWithState
  \/ ValidateCatch
  \/ ValidateReturn

Spec == Init /\ [][Next]_vars

-----------------------------------------------------------------------------
(* validate() on type-form schemas: every type against numbers around the  *)
(* limits of the integer types, against strings and against the other      *)
(* kinds of value.  Here a string is the sequence of its characters.        *)

\* List of valid values that the "type" keyword may take on
VALID_TYPES ==
  {"boolean", "float32", "float64", "int8", "uint8", "int16", "uint16",
   "int32", "uint32", "string", "timestamp"}

TypeSchemas == {[type |-> t] : t \in VALID_TYPES}

\* the integers next to v
Pred(v) == IF v.lo = 0 THEN Num(v.hi - 1, 65535, FALSE) ELSE Num(v.hi, v.lo - 1, FALSE)
Succ(v) == IF v.lo = 65535 THEN Num(v.hi + 1, 0, FALSE) ELSE Num(v.hi, v.lo + 1, FALSE)

\* the limits the switch on schema.type passes to validateInt, the integers
\* on both sides of each, numbers with a fraction, and values of every other
\* kind
TypeInstances ==
  LET limits ==
        { Num(-1, 65408, FALSE), Num(0, 127, FALSE), Num(0, 0, FALSE),
          Num(0, 255, FALSE), Num(-1, 32768, FALSE), Num(0, 32767, FALSE),
          Num(0, 65535, FALSE), Num(-32768, 0, FALSE), Num(32767, 65535, FALSE),
          Num(65535, 65535, FALSE) }
      fractions ==
        { Num(0, 1, TRUE), Num(0, 254, TRUE), Num(-1, 65535, TRUE),
          Num(65535, 65534, TRUE) }
      strings == { <<>>, <<"a">>, <<"1">> }
  IN limits \cup {Pred(v) : v \in limits} \cup {Succ(v) : v \in limits}
       \cup fractions
       \cup {Null, Bool(TRUE), Bool(FALSE), Arr(<<>>), Arr(<<IntNum(1)>>), Obj(<<>>)}
       \cup {Str(s) : s \in strings}

\* the string year-month-day sep hour:minute:second fraction offset, every
\* number written with all its digits
Timestamp(year, month, day, sep, hour, minute, second, fraction, offset) ==
  LET TwoDigits(n) == <<ToString(n \div 10), ToString(n % 10)>>
      FourDigits(n) == TwoDigits(n \div 100) \o TwoDigits(n % 100)
  IN FourDigits(year) \o <<"-">> \o TwoDigits(month) \o <<"-">> \o TwoDigits(day)
       \o sep \o TwoDigits(hour) \o <<":">> \o TwoDigits(minute) \o <<":">>
       \o TwoDigits(second) \o fraction \o offset

\* the strings passed as timestamps:
\*  - dates: years of each kind for the leap year rule, every month and two
\*    that are none, the days around the month ends;
\*  - times: the values around the limit of each field, at two offsets;
\*  - shapes: 1985-04-12T23:20:50.52Z of the RFC in every spelling;
\*  - others: strings that only contain a timestamp, a date alone, no
\*    timestamp at all.
TimestampStrings ==
  LET dates ==
        { Timestamp(y, m, d, <<"T">>, 0, 0, 0, <<>>, <<"Z">>) :
            y \in {1900, 1990, 2000, 2019, 2020}, m \in 0..13,
            d \in {0, 1, 28, 29, 30, 31, 32} }
      times ==
        { Timestamp(1990, 12, 31, <<"T">>, h, m, s, <<>>, z) :
            h \in {0, 15, 23, 24, 25}, m \in {0, 59, 60}, s \in {0, 59, 60, 61},
            z \in { <<"Z">>, <<"-", "0", "8", ":", "0", "0">> } }
      separators == { <<"T">>, <<"t">>, <<" ">>, <<>> }
      fractions ==
        { <<>>, <<".">>, <<".", "5", "2">>,
          <<".", "0", "0", "0", "0", "0", "0", "0", "0", "0", "4", "5", "2">> }
      offsets ==
        { <<"Z">>, <<"z">>, <<>>, <<"+", "0", "0", ":", "2", "0">>,
          <<"-", "0", "8", ":", "0", "0">>, <<"+", "0", "0", "2", "0">>,
          <<"-", "0", "8">> }
      shapes ==
        { Timestamp(1985, 4, 12, sep, 23, 20, 50, f, z) :
            sep \in separators, f \in fractions, z \in offsets }
      example ==
        Timestamp(1985, 4, 12, <<"T">>, 23, 20, 50, <<".", "5", "2">>, <<"Z">>)
      others ==
        { <<"x">> \o example \o <<"x">>, example \o <<"x">>, <<"x">> \o example,
          SubSeq(example, 1, 10), <<>>, <<"a">> }
  IN dates \cup times \cup shapes \cup others

\* config omitted, or the walk stopped at the first error
TypeConfigs == { <<>>, << [maxErrors |-> 1] >> }

InitType ==
  /\ \/ schema \in TypeSchemas /\ instance \in TypeInstances
     \/ /\ schema = [type |-> "timestamp"]
        /\ instance \in {Str(s) : s \in TimestampStrings}
  /\ config = <<>>
  /\ state = [errors |-> <<>>, instanceTokens |-> <<>>, schemaTokens |-> <<(<<>>)>>,
              root |-> schema, config |-> effectiveConfig(<<>>)]
  /\ stack = <<>>
  /\ thrown = "none"
  /\ pc = "idle"
  /\ result = NoResult
  /\ last = [config |-> <<>>, result |-> NoResult]

NextType ==
  \/ \E c \in TypeConfigs : Validate(c)
  \/ EnterType
  \/ ValidateCatch
  \/ ValidateReturn

SpecType == InitType /\ [][NextType]_vars

-----------------------------------------------------------------------------
(* isSchema(): src/src/schema.ts.  The data passed is a JSON value. *)

\* the keywords of the form signature, in the order of VALID_FORMS
FormKeywords ==
  <<"ref", "type", "enum", "elements", "properties", "optionalProperties",
    "additionalProperties", "values", "discriminator", "mapping">>

\* (mutant) the table with a row more: additionalProperties on its own
VALID_FORMS_AdditionalAlone ==
  << <<FALSE, FALSE, FALSE, FALSE, FALSE, FALSE, FALSE, FALSE, FALSE, FALSE>>,
     <<TRUE, FALSE, FALSE, FALSE, FALSE, FALSE, FALSE, FALSE, FALSE, FALSE>>,
     <<FALSE, TRUE, FALSE, FALSE, FALSE, FALSE, FALSE, FALSE, FALSE, FALSE>>,
     <<FALSE, FALSE, TRUE, FALSE, FALSE, FALSE, FALSE, FALSE, FALSE, FALSE>>,
     <<FALSE, FALSE, FALSE, TRUE, FALSE, FALSE, FALSE, FALSE, FALSE, FALSE>>,
     <<FALSE, FALSE, FALSE, FALSE, TRUE, FALSE, FALSE, FALSE, FALSE, FALSE>>,
     <<FALSE, FALSE, FALSE, FALSE, FALSE, TRUE, FALSE, FALSE, FALSE, FALSE>>,
     <<FALSE, FALSE, FALSE, FALSE, TRUE, TRUE, FALSE, FALSE, FALSE, FALSE>>,
     <<FALSE, FALSE, FALSE, FALSE, TRUE, FALSE, TRUE, FALSE, FALSE, FALSE>>,
     <<FALSE, FALSE, FALSE, FALSE, FALSE, TRUE, TRUE, FALSE, FALSE, FALSE>>,
     <<FALSE, FALSE, FALSE, FALSE, TRUE, TRUE, TRUE, FALSE, FALSE, FALSE>>,
     <<FALSE, FALSE, FALSE, FALSE, FALSE, FALSE, FALSE, TRUE, FALSE, FALSE>>,
     <<FALSE, FALSE, FALSE, FALSE, FALSE, FALSE, FALSE, FALSE, TRUE, TRUE>>,
     <<FALSE, FALSE, FALSE, FALSE, FALSE, FALSE, TRUE, FALSE, FALSE, FALSE>> >>

\* (mutant) the table with a row more: type together with elements
VALID_FORMS_TypeWithElements ==
  << <<FALSE, FALSE, FALSE, FALSE, FALSE, FALSE, FALSE, FALSE, FALSE, FALSE>>,
     <<TRUE, FALSE, FALSE, FALSE, FALSE, FALSE, FALSE, FALSE, FALSE, FALSE>>,
     <<FALSE, TRUE, FALSE, FALSE, FALSE, FALSE, FALSE, FALSE, FALSE, FALSE>>,
     <<FALSE, FALSE, TRUE, FALSE, FALSE, FALSE, FALSE, FALSE, FALSE, FALSE>>,
     <<FALSE, FALSE, FALSE, TRUE, FALSE, FALSE, FALSE, FALSE, FALSE, FALSE>>,
     <<FALSE, FALSE, FALSE, FALSE, TRUE, FALSE, FALSE, FALSE, FALSE, FALSE>>,
     <<FALSE, FALSE, FALSE, FALSE, FALSE, TRUE, FALSE, FALSE, FALSE, FALSE>>,
     <<FALSE, FALSE, FALSE, FALSE, TRUE, TRUE, FALSE, FALSE, FALSE, FALSE>>,
     <<FALSE, FALSE, FALSE, FALSE, TRUE, FALSE, TRUE, FALSE, FALSE, FALSE>>,
     <<FALSE, FALSE, FALSE, FALSE, FALSE, TRUE, TRUE, FALSE, FALSE, FALSE>>,
     <<FALSE, FALSE, FALSE, FALSE, TRUE, TRUE, TRUE, FALSE, FALSE, FALSE>>,
     <<FALSE, FALSE, FALSE, FALSE, FALSE, FALSE, FALSE, TRUE, FALSE, FALSE>>,
     <<FALSE, FALSE, FALSE, FALSE, FALSE, FALSE, FALSE, FALSE, TRUE, TRUE>>,
     <<FALSE, TRUE, FALSE, TRUE, FALSE, FALSE, FALSE, FALSE, FALSE, FALSE>> >>

\* Index of valid form "signatures": empty, ref, type, enum, elements, six
\* rows of the properties form, values, discriminator
VALID_FORMS ==
  << <<FALSE, FALSE, FALSE, FALSE, FALSE, FALSE, FALSE, FALSE, FALSE, FALSE>>,
     <<TRUE, FALSE, FALSE, FALSE, FALSE, FALSE, FALSE, FALSE, FALSE, FALSE>>,
     <<FALSE, TRUE, FALSE, FALSE, FALSE, FALSE, FALSE, FALSE, FALSE, FALSE>>,
     <<FALSE, FALSE, TRUE, FALSE, FALSE, FALSE, FALSE, FALSE, FALSE, FALSE>>,
     <<FALSE, FALSE, FALSE, TRUE, FALSE, FALSE, FALSE, FALSE, FALSE, FALSE>>,
     <<FALSE, FALSE, FALSE, FALSE, TRUE, FALSE, FALSE, FALSE, FALSE, FALSE>>,
     <<FALSE, FALSE, FALSE, FALSE, FALSE, TRUE, FALSE, FALSE, FALSE, FALSE>>,
     <<FALSE, FALSE, FALSE, FALSE, TRUE, TRUE, FALSE, FALSE, FALSE, FALSE>>,
     <<FALSE, FALSE, FALSE, FALSE, TRUE, FALSE, TRUE, FALSE, FALSE, FALSE>>,
     <<FALSE, FALSE, FALSE, FALSE, FALSE, TRUE, TRUE, FALSE, FALSE, FALSE>>,
     <<FALSE, FALSE, FALSE, FALSE, TRUE, TRUE, TRUE, FALSE, FALSE, FALSE>>,
     <<FALSE, FALSE, FALSE, FALSE, FALSE, FALSE, FALSE, TRUE, FALSE, FALSE>>,
     <<FALSE, FALSE, FALSE, FALSE, FALSE, FALSE, FALSE, FALSE, TRUE, TRUE>> >>

\* the destructured keywords: everything else lands in rest
SchemaKeywords ==
  {"definitions", "nullable", "metadata"} \cup {FormKeywords[i] : i \in 1..Len(FormKeywords)}

\* [ref !== undefined, type !== undefined, ...]: in JSON data a key that is
\* there has a value other than undefined
formSignature(obj) ==
  [i \in 1..Len(FormKeywords) |-> hasOwnProperty(obj, FormKeywords[i])]

\* the loop over VALID_FORMS
formOk(obj) ==
  \E r \in 1..Len(VALID_FORMS) :
    \A i \in 1..Len(FormKeywords) : VALID_FORMS[r][i] = formSignature(obj)[i]

\* Object.keys(rest).length !== 0
restNotEmpty(obj) == \E i \in 1..Len(obj.o) : obj.o[i][1] \notin SchemaKeywords

RECURSIVE isSchema(_)

\* for (const value of Object.values(v)) if (!isSchema(value)) return false
valuesAreSchemas(v) == \A i \in 1..Len(v.o) : isSchema(v.o[i][2])

\* the test of keyword when it is there: TRUE when isSchema returns false
keywordRejects(keyword, v) ==
  CASE keyword \in {"definitions", "properties", "optionalProperties", "mapping"}
         -> ~isObject(v) \/ ~valuesAreSchemas(v)
    [] keyword \in {"nullable", "additionalProperties"} -> v.k # "boolean"
    [] keyword = "metadata" -> ~isObject(v)
    [] keyword \in {"ref", "discriminator"} -> v.k # "string"
    [] keyword = "type" -> v.k # "string" \/ v.s \notin VALID_TYPES
    [] keyword = "enum" ->
         v.k # "array" \/ \E i \in 1..Len(v.a) : v.a[i].k # "string"
    [] keyword \in {"elements", "values"} -> ~isSchema(v)

isSchema(data) ==
  IF ~isObject(data) THEN FALSE
  ELSE IF ~formOk(data) THEN FALSE
  ELSE IF \E keyword \in SchemaKeywords :
            hasOwnProperty(data, keyword)
              /\ keywordRejects(keyword, getProperty(data, keyword))
       THEN FALSE
  ELSE ~restNotEmpty(data)

\* data as Schema, once isSchema has accepted it: the same value, in the
\* shape the schemas of this model have
RECURSIVE toSchema(_)
toSchema(data) ==
  [keyword \in {data.o[i][1] : i \in 1..Len(data.o)} |->
     LET v == getProperty(data, keyword)
     IN CASE keyword \in {"ref", "type", "discriminator"} -> v.s
          [] keyword \in {"nullable", "additionalProperties"} -> v.b
          [] keyword = "enum" -> [i \in 1..Len(v.a) |-> v.a[i].s]
          [] keyword \in {"elements", "values"} -> toSchema(v)
          [] keyword \in {"properties", "optionalProperties", "mapping"}
               -> [i \in 1..Len(v.o) |-> <<v.o[i][1], toSchema(v.o[i][2])>>]
          [] keyword = "definitions"
               -> [name \in {v.o[i][1] : i \in 1..Len(v.o)} |->
                     toSchema(getProperty(v, name))]
          [] OTHER -> v]

\* the keys of the data passed to isSchema, in the order they are written
KeyOrder == <<"definitions", "nullable", "metadata">> \o FormKeywords \o <<"foo">>

\* a value of the type the keyword asks for
GoodValue(keyword) ==
  CASE keyword \in {"ref", "discriminator"} -> Str("a")
    [] keyword = "type" -> Str("string")
    [] keyword = "enum" -> Arr(<< Str("a") >>)
    [] keyword \in {"nullable", "additionalProperties"} -> Bool(TRUE)
    [] keyword \in {"definitions", "properties", "optionalProperties", "mapping"}
         -> Obj(<< <<"a", Obj(<<>>)>> >>)
    [] OTHER -> Obj(<<>>)

\* the object with the given keys and the value of each
ObjectOf(keys, values) ==
  LET all == [i \in 1..Len(KeyOrder) |-> <<KeyOrder[i], values[KeyOrder[i]]>>]
      chosen(entry) == entry[1] \in keys
  IN Obj(SelectSeq(all, chosen))

\* the data passed to isSchema:
\*  - every combination of the ten form keywords, each with nothing more,
\*    with nullable, with all three shared keywords and with a key that is no
\*    keyword, once with values of the right type and once with null for
\*    every value;
\*  - an object of each valid signature with one of its values exchanged;
\*  - values that are no objects.
SchemaCandidates ==
  LET keySet == {KeyOrder[i] : i \in 1..Len(KeyOrder)}
      goodValues == [keyword \in keySet |-> GoodValue(keyword)]
      nullValues == [keyword \in keySet |-> Null]
      extras == { {}, {"nullable"}, {"definitions", "nullable", "metadata"}, {"foo"} }
      combinations ==
        {form \cup extra :
           form \in SUBSET {FormKeywords[i] : i \in 1..Len(FormKeywords)},
           extra \in extras}
      oddValues ==
        { Null, Bool(FALSE), IntNum(1), Str("x"), Str("int64"), Str("uint8"),
          Arr(<<>>), Arr(<< IntNum(1) >>), Arr(<< Str("a"), Str("a") >>), Obj(<<>>),
          Obj(<< <<"a", Null>> >>),
          Obj(<< <<"a", Obj(<< <<"type", Str("x")>> >>)>> >>),
          Obj(<< <<"type", Str("boolean")>> >>) }
      rowKeys(r) ==
        {"definitions", "nullable", "metadata"}
          \cup {FormKeywords[i] : i \in {j \in 1..Len(FormKeywords) : VALID_FORMS[r][j]}}
  IN {ObjectOf(keys, goodValues) : keys \in combinations}
       \cup {ObjectOf(keys, nullValues) : keys \in combinations}
       \cup UNION { { ObjectOf(rowKeys(r), [goodValues EXCEPT ![k] = v]) :
                        k \in rowKeys(r), v \in oddValues }
                    : r \in 1..Len(VALID_FORMS) }
       \cup { Null, Bool(TRUE), IntNum(1), Str("a"), Arr(<<>>), Arr(<< Obj(<<>>) >>) }

InitIsSchema ==
  /\ schema \in SchemaCandidates
  /\ instance = Null
  /\ config = <<>>
  /\ state = [errors |-> <<>>, instanceTokens |-> <<>>, schemaTokens |-> <<(<<>>)>>,
              root |-> schema, config |-> effectiveConfig(<<>>)]
  /\ stack = <<>>
  /\ thrown = "none"
  /\ pc = "idle"
  /\ result = NoResult
  /\ last = [config |-> <<>>, result |-> NoResult]

\* the call isSchema(data) on the value held in schema
CallIsSchema ==
  /\ pc = "idle"
  /\ result' = [kind |-> "returned", value |-> isSchema(schema)]
  /\ pc' = "done"
  /\ UNCHANGED <<schema, instance, config, state, stack, thrown, last>>

SpecIsSchema == InitIsSchema /\ [][CallIsSchema]_vars

-----------------------------------------------------------------------------
(* isValidSchema(): src/src/schema.ts *)

\* the keys of definitions: a function from names to schemas
definitionNames(s) == IF "definitions" \in DOMAIN s THEN DOMAIN s.definitions ELSE {}

\* schema.properties || {}, and the same for optionalProperties
entriesOf(s, keyword) == IF keyword \in DOMAIN s THEN s[keyword] ELSE <<>>

\* schema.ref in (root.definitions || {})
refInDefinitions(ref, root) ==
  ref \in definitionNames(root) \/ ref \in ObjectPrototypeKeys

\* (mutant) the enum test without the comparison with the Set's size
enumRejectsEmptyOnly(enum) == Len(enum) = 0

\* schema.enum.length === 0, schema.enum.length !== new Set(schema.enum).size
enumRejects(enum) ==
  \/ Len(enum) = 0
  \/ Len(enum) # Cardinality({enum[i] : i \in 1..Len(enum)})

\* (mutant) definitions tolerated on every schema
definitionsNotAtRootNever(s, root) == FALSE

\* schema.definitions !== undefined and root !== schema
definitionsNotAtRoot(s, root) == "definitions" \in DOMAIN s /\ root # s

\* for (const key of Object.keys(schema.properties || {}))
\*   if (key in (schema.optionalProperties || {})) return false
sharedKey(s) ==
  \E i \in 1..Len(entriesOf(s, "properties")) :
    inOperator(entriesOf(s, "optionalProperties"), s.properties[i][1])

RECURSIVE isValidSchema(_, _)

\* some schema among the values of the entries is not valid
someInvalid(entries, root) ==
  \E i \in 1..Len(entries) : ~isValidSchema(entries[i][2], root)

\* the body of the loop over Object.values(schema.mapping) returns false
mappingRejects(s, subSchema, root) ==
  \/ ~isValidSchema(subSchema, root)
  \/ ~isPropertiesForm(subSchema)
  \/ nullable(subSchema)
  \/ inOperator(entriesOf(subSchema, "properties"), s.discriminator)
  \/ inOperator(entriesOf(subSchema, "optionalProperties"), s.discriminator)

\* isValidSchema(schema, root); the call isValidSchema(schema) is the one
\* with root = schema
isValidSchema(s, root) ==
  IF definitionsNotAtRoot(s, root) THEN FALSE
  ELSE IF \E name \in definitionNames(s) : ~isValidSchema(s.definitions[name], root)
  THEN FALSE
  ELSE IF isRefForm(s) /\ ~refInDefinitions(s.ref, root) THEN FALSE
  ELSE IF isEnumForm(s) /\ enumRejects(s.enum) THEN FALSE
  ELSE IF isElementsForm(s) THEN isValidSchema(s.elements, root)
  ELSE IF /\ isPropertiesForm(s)
          /\ \/ someInvalid(entriesOf(s, "properties"), root)
             \/ someInvalid(entriesOf(s, "optionalProperties"), root)
             \/ sharedKey(s)
  THEN FALSE
  ELSE IF isValuesForm(s) THEN isValidSchema(s.values, root)
  ELSE IF /\ isDiscriminatorForm(s)
          /\ \E i \in 1..Len(s.mapping) : mappingRejects(s, s.mapping[i][2], root)
  THEN FALSE
  ELSE TRUE

\* the schemas with sub-schemas nested at most n deep: at depth 0 the
\* schemas without sub-schemas and the empty schema carrying definitions,
\* then each as the sub-schema of every form that has sub-schemas
RECURSIVE Nested(_)
Nested(n) ==
  LET leaves ==
        { <<>>, [type |-> "string"], [ref |-> "a"], [ref |-> "b"],
          [ref |-> "toString"], [enum |-> <<>>], [enum |-> <<"a">>],
          [enum |-> <<"a", "b">>], [enum |-> <<"a", "a">>],
          [enum |-> <<"b", "a", "b">>], [definitions |-> <<>>],
          [definitions |-> [a |-> <<>>]] }
      wrap(s) ==
        { [elements |-> s], [values |-> s],
          [properties |-> << <<"p", s>> >>],
          [optionalProperties |-> << <<"p", s>> >>],
          [properties |-> << <<"p", <<>>>> >>, optionalProperties |-> << <<"q", s>> >>],
          [discriminator |-> "kind",
           mapping |-> << <<"m", [properties |-> << <<"p", s>> >>]>> >>] }
  IN IF n = 0 THEN leaves
     ELSE Nested(n - 1) \cup UNION {wrap(s) : s \in Nested(n - 1)}

\* the schemas passed to isValidSchema:
\*  - the nested schemas, as they are and with each map of definitions;
\*  - properties-form schemas with every choice of the two key sets;
\*  - discriminator-form schemas with each kind of mapping value.
ValidityCandidates ==
  LET definitionMaps ==
        { <<>>, [a |-> <<>>], [a |-> [ref |-> "a"]], [a |-> [ref |-> "b"]],
          [a |-> [ref |-> "toString"]], [a |-> [enum |-> <<"a", "a">>]],
          [a |-> [definitions |-> <<>>]],
          [a |-> [elements |-> [definitions |-> <<>>]]],
          [a |-> [elements |-> [ref |-> "b"]]],
          [a |-> [type |-> "string"], b |-> [ref |-> "a"]] }
      names == {"a", "b", "toString"}
      entries ==
        { <<>> } \cup { << <<n, <<>>>> >> : n \in names }
          \cup { << <<pair[1], <<>>>>, <<pair[2], [type |-> "string"]>> >> :
                   pair \in {x \in names \X names : x[1] # x[2]} }
      propertiesForms ==
        { [properties |-> p] : p \in entries }
          \cup { [optionalProperties |-> o] : o \in entries }
          \cup { [properties |-> p, optionalProperties |-> o] :
                   p \in entries, o \in entries }
      discriminatorForms ==
        { [discriminator |-> d, mapping |-> << <<"m", s>> >>] :
            d \in {"kind", "toString"},
            s \in { [properties |-> <<>>], [properties |-> <<>>, nullable |-> TRUE],
                    [properties |-> << <<"kind", <<>>>> >>],
                    [optionalProperties |-> << <<"kind", <<>>>> >>],
                    [type |-> "string"], <<>> } }
  IN Nested(MaxNest)
       \cup {[definitions |-> d] @@ s : s \in Nested(MaxNest), d \in definitionMaps}
       \cup propertiesForms \cup discriminatorForms


InitIsValidSchema ==
  /\ schema \in ValidityCandidates
  /\ instance = Null
  /\ config = <<>>
  /\ state = [errors |-> <<>>, instanceTokens |-> <<>>, schemaTokens |-> <<(<<>>)>>,
              root |-> schema, config |-> effectiveConfig(<<>>)]
  /\ stack = <<>>
  /\ thrown = "none"
  /\ pc = "idle"
  /\ result = NoResult
  /\ last = [config |-> <<>>, result |-> NoResult]

\* the call isValidSchema(schema): root is left out
CallIsValidSchema ==
  /\ pc = "idle"
  /\ result' = [kind |-> "returned", value |-> isValidSchema(schema, schema)]
  /\ pc' = "done"
  /\ UNCHANGED <<schema, instance, config, state, stack, thrown, last>>

SpecIsValidSchema == InitIsValidSchema /\ [][CallIsValidSchema]_vars

-----------------------------------------------------------------------------
(* isValidSchema() and then validate(), on schemas with refs: the caller    *)
(* validates instances only against a schema isValidSchema has accepted.    *)

\* a ref at the root and a ref below elements, without definitions and with
\* each map of definitions; the last schema has the definitions and the
\* ref on the same nested schema
RefCandidates ==
  LET names == {"a", "b", "toString"}
      roots == {[ref |-> name] : name \in names}
                 \cup {[elements |-> [ref |-> name]] : name \in names}
      definitionMaps ==
        { <<>>, [a |-> [type |-> "string"]], [a |-> [ref |-> "b"], b |-> <<>>],
          [a |-> [ref |-> "toString"]], [a |-> [ref |-> "a"]] }
  IN roots \cup {[definitions |-> d] @@ s : s \in roots, d \in definitionMaps}
       \cup { [elements |-> [definitions |-> [a |-> <<>>], ref |-> "a"]] }


RefInstances == { Null, Str("a"), Arr(<< Str("a"), Null >>) }

RefConfigs == { <<>>, << [maxDepth |-> 2] >> }

InitRef ==
  /\ schema \in RefCandidates
  /\ instance \in RefInstances
  /\ config = <<>>
  /\ state = [errors |-> <<>>, instanceTokens |-> <<>>, schemaTokens |-> <<(<<>>)>>,
              root |-> schema, config |-> effectiveConfig(<<>>)]
  /\ stack = <<>>
  /\ thrown = "none"
  /\ pc = "idle"
  /\ result = NoResult
  /\ last = [config |-> <<>>, result |-> NoResult]

\* if (isValidSchema(schema)) validate(schema, instance, config)
ValidateAccepted(c) ==
  /\ pc = "done"
  /\ result.kind = "returned"
  /\ "value" \in DOMAIN result /\ result.value
  /\ StartValidate(c)

NextRef ==
  \/ CallIsValidSchema
  \/ \E c \in RefConfigs : ValidateAccepted(c)
  \/ EnterRef \/ RefReturn
  \/ EnterEmpty \/ EnterType
  \/ EnterElements \/ ElementsLoop \/ ElementsNext
  \/ ValidateCatch
  \/ ValidateReturn

SpecRef == InitRef /\ [][NextRef]_vars

-----------------------------------------------------------------------------
(* isRFC3339() called on a string *)

InitRFC3339 ==
  /\ schema = <<>>
  /\ instance \in {Str(s) : s \in TimestampStrings}
  /\ config = <<>>
  /\ state = [errors |-> <<>>, instanceTokens |-> <<>>, schemaTokens |-> <<(<<>>)>>,
              root |-> schema, config |-> effectiveConfig(<<>>)]
  /\ stack = <<>>
  /\ thrown = "none"
  /\ pc = "idle"
  /\ result = NoResult
  /\ last = [config |-> <<>>, result |-> NoResult]

\* the call isRFC3339(s) on the string held in instance
CallIsRFC3339 ==
  /\ pc = "idle"
  /\ result' = [kind |-> "returned", value |-> isRFC3339(instance.s)]
  /\ pc' = "done"
  /\ UNCHANGED <<schema, instance, config, state, stack, thrown, last>>

SpecRFC3339 == InitRFC3339 /\ [][CallIsRFC3339]_vars

-----------------------------------------------------------------------------
(* The three checking steps as passes over the same schema: a caller that   *)
(* holds a schema and an instance and calls isSchema, isValidSchema and     *)
(* validate on them, in any order and any number of times.                  *)

\* the JSON data a schema is parsed from: what toSchema turns back into it
RECURSIVE toData(_)
toData(s) ==
  LET present(keyword) == keyword \in DOMAIN s
      keys == SelectSeq(KeyOrder, present)
      entries(e) == [i \in 1..Len(e) |-> <<e[i][1], toData(e[i][2])>>]
      names(d) == CHOOSE q \in [1..Cardinality(DOMAIN d) -> DOMAIN d] :
                    {q[i] : i \in DOMAIN q} = DOMAIN d
      value(keyword) ==
        CASE keyword \in {"ref", "type", "discriminator"} -> Str(s[keyword])
          [] keyword \in {"nullable", "additionalProperties"} -> Bool(s[keyword])
          [] keyword = "enum" -> Arr([i \in 1..Len(s.enum) |-> Str(s.enum[i])])
          [] keyword \in {"elements", "values"} -> toData(s[keyword])
          [] keyword \in {"properties", "optionalProperties", "mapping"}
               -> Obj(entries(s[keyword]))
          [] keyword = "definitions"
               -> Obj([i \in 1..Cardinality(DOMAIN s.definitions) |->
                        <<names(s.definitions)[i],
                          toData(s.definitions[names(s.definitions)[i]])>>])
          [] OTHER -> s[keyword]
  IN Obj([i \in 1..Len(keys) |-> <<keys[i], value(keys[i])>>])

\* the caller holds one schema and one instance.  The schemas: one of each
\* form, refs through elements, and schemas one of the two predicates
\* refuses.
InitPasses ==
  /\ schema \in
       Forms \cup {ElementsRef, PersonStrict, Chain(2), SelfRef @@ [nullable |-> TRUE]}
             \cup { [ref |-> "a"], [enum |-> <<>>], [type |-> "x"],
                    [elements |-> <<>>, values |-> <<>>],
                    [elements |-> [definitions |-> <<>>]] }
  /\ instance \in
       { Null, Str("a"), Nulls(2), Obj(<<>>),
         Obj(<< <<"name", Str("a")>>, <<"age", IntNum(43)>>, <<"kind", Null>>,
                <<"nick", Null>>, <<"zip", Null>> >>),
         Obj(<< <<"kind", Str("a")>>, <<"x", Null>>, <<"y", Null>> >>) }
  /\ config = <<>>
  /\ state = [errors |-> <<>>, instanceTokens |-> <<>>, schemaTokens |-> <<(<<>>)>>,
              root |-> schema, config |-> effectiveConfig(<<>>)]
  /\ stack = <<>>
  /\ thrown = "none"
  /\ pc = "idle"
  /\ result = NoResult
  /\ last = [config |-> <<>>, result |-> NoResult]

\* what one of the two predicates returned
Verdict(fn, value) == [kind |-> "returned", fn |-> fn, value |-> value]

\* (mutant) isSchema taking the shared keywords off the data with delete
\* instead of the rest pattern
IsSchemaPassDeleting ==
  /\ pc \in {"idle", "done"}
  /\ result' = Verdict("isSchema", isSchema(toData(schema)))
  /\ schema' = [keyword \in DOMAIN schema \ {"definitions", "nullable", "metadata"}
                  |-> schema[keyword]]
  /\ last' = [config |-> config, result |-> result]
  /\ pc' = "done"
  /\ UNCHANGED <<instance, config, state, stack, thrown>>

\* isSchema(schema), between two calls of validate or before the first
IsSchemaPass ==
  /\ pc \in {"idle", "done"}
  /\ result' = Verdict("isSchema", isSchema(toData(schema)))
  /\ last' = [config |-> config, result |-> result]
  /\ pc' = "done"
  /\ UNCHANGED <<schema, instance, config, state, stack, thrown>>

\* isValidSchema(schema), in the same way
IsValidSchemaPass ==
  /\ pc \in {"idle", "done"}
  /\ result' = Verdict("isValidSchema", isValidSchema(schema, schema))
  /\ last' = [config |-> config, result |-> result]
  /\ pc' = "done"
  /\ UNCHANGED <<schema, instance, config, state, stack, thrown>>

NextPasses ==
  \/ IsSchemaPass
  \/ IsValidSchemaPass
  \/ \E c \in { <<>>, << [maxErrors |-> 1] >>, << [maxDepth |-> 2] >> } : Validate(c)
  \/ ValidateWithState
  \/ ValidateCatch
  \/ ValidateReturn

SpecPasses == InitPasses /\ [][NextPasses]_vars

-----------------------------------------------------------------------------
(* Properties of validate *)

Min(a, b) == IF a <= b THEN a ELSE b

\* the call in progress has no error limit: config omitted, maxErrors left
\* out of it, or maxErrors zero
Unbounded(c) ==
  c = <<>> \/ "maxErrors" \notin DOMAIN c[1] \/ c[1].maxErrors = 0

\* the call in progress has no depth limit
UnboundedDepth(c) == depthOf(c) \in {<<>>, <<0>>}

Error(instancePath, schemaPath) ==
  [instancePath |-> instancePath, schemaPath |-> schemaPath]

Returned(errors) == [kind |-> "returned", errors |-> errors]

\* C1: when the call without error limit returned the list E, the call on
\* the same schema, instance and maxDepth with maxErrors = k > 0 returns
\* exactly the first min(k, |E|) entries of E, in the same order.
C1_MaxErrorsPrefix ==
  (/\ pc = "done"
   /\ last.result.kind = "returned"
   /\ Unbounded(last.config)
   /\ ~Unbounded(config))
  => result = Returned(SubSeq(last.result.errors, 1,
                Min(config[1].maxErrors, Len(last.result.errors))))

\* C1 witness: elements:{type:string} against five nulls with maxErrors 3
\* returns the errors at "0", "1", "2", after the unlimited call returned five
C1_Witness ==
  /\ pc = "done"
  /\ schema = ElementsString
  /\ instance = Nulls(5)
  /\ Unbounded(last.config)
  /\ Len(last.result.errors) = 5
  /\ config = << [maxErrors |-> 3] >>
  /\ result = Returned(<< Error(<<"0">>, <<"elements", "type">>),
                          Error(<<"1">>, <<"elements", "type">>),
                          Error(<<"2">>, <<"elements", "type">>) >>)

\* a step of the call in progress can be taken
CanStep == ENABLED (ValidateWithState \/ ValidateCatch \/ ValidateReturn)

\* C2: on the schema that refers to itself, with maxDepth N >= 1 and any
\* instance, validate never returns a list: it follows fewer than N refs,
\* always has a next step until it is done, and ends raising
\* MaxDepthExceededError.
C2_SelfRefRaises ==
  (/\ schema = SelfRef
   /\ pc # "idle"
   /\ ~UnboundedDepth(config))
  => /\ result.kind # "returned"
     /\ Len(stack) <= depthOf(config)[1]
     /\ pc # "done" => CanStep
     /\ pc = "done" => result.kind = "MaxDepthExceededError"

\* C2 witness: maxDepth 5 against null has raised
C2_Witness ==
  /\ pc = "done"
  /\ schema = SelfRef
  /\ isNull(instance)
  /\ depthOf(config) = <<5>>
  /\ result.kind = "MaxDepthExceededError"

\* C3 (as claimed): maxDepth = N lets N nested refs be followed, so
\* MaxDepthExceededError is thrown only when a ref nested more than N deep is
\* about to be followed, and a chain of n <= N nested refs validates without
\* raising.
C3_Claim_NestedRefsTolerated ==
  /\ thrown = "MaxDepthExceededError"
       => Len(state.schemaTokens) > state.config.maxDepth
  /\ \A n \in 1..MaxChain :
       (schema = Chain(n) /\ pc = "done" /\ depthOf(config) # <<>>
          /\ depthOf(config)[1] >= n)
       => result.kind # "MaxDepthExceededError"

\* C4: with maxDepth zero or not given MaxDepthExceededError is never
\* thrown, however many refs are nested; with maxErrors zero or not given
\* the walk is never cut short and all recorded errors are returned.
C4_ZeroMeansUnbounded ==
  /\ UnboundedDepth(config)
       => thrown # "MaxDepthExceededError" /\ result.kind # "MaxDepthExceededError"
  /\ Unbounded(config)
       => /\ thrown # "MaxErrorsReachedError"
          /\ result.kind = "returned" => result.errors = state.errors

\* C4 witness: config omitted, three refs nested, the error of the innermost
\* schema returned
C4_Witness ==
  /\ pc = "done"
  /\ schema = Chain(MaxChain)
  /\ config = <<>>
  /\ result = Returned(<< Error(<<>>, <<"definitions", ChainName(MaxChain), "type">>) >>)

\* C5 (as claimed): a finished call has returned a list of errors or raised
\* MaxDepthExceededError, nothing else; the max-errors abort never escapes.
C5_Claim_TwoOutcomes ==
  pc = "done" => result.kind \in {"returned", "MaxDepthExceededError"}

\* C6: a schema with nullable: true validates null with no error, whatever
\* its form; no ref is followed and no depth check made on the way.
C6_NullableNull ==
  ("nullable" \in DOMAIN schema /\ schema.nullable /\ isNull(instance) /\ pc # "idle")
  => /\ Len(stack) <= 1
     /\ Len(state.schemaTokens) = 1
     /\ thrown = "none"
     /\ pc = "done" => result = Returned(<<>>)

\* C6 witness: the nullable ref to itself, maxDepth 1, null: returned empty
C6_Witness ==
  /\ pc = "done"
  /\ schema = SelfRef @@ [nullable |-> TRUE]
  /\ isNull(instance)
  /\ depthOf(config) = <<1>>
  /\ result = Returned(<<>>)

\* C7: a call with the arguments of the previous call has the outcome of the
\* previous call, also when that one was aborted with tokens still pushed.
C7_SameArgumentsSameOutcome ==
  (pc = "done" /\ last.result.kind # "none" /\ last.config = config)
  => result = last.result

\* C7 witness: the same call twice, both cut off at maxErrors with an
\* instance token still on the stack
C7_Witness ==
  /\ pc = "done"
  /\ last.config = config
  /\ last.result.kind = "returned"
  /\ result = last.result
  /\ ~Unbounded(config)
  /\ Len(result.errors) = config[1].maxErrors
  /\ state.instanceTokens # <<>>

-----------------------------------------------------------------------------
(* Properties of the properties and discriminator forms, as steps *)

\* the paths of the call on top: where its instance and its schema are
P == Top.entry.instanceTokens
Q == Top.entry.schemaTokens[Len(Top.entry.schemaTokens)]

\* the schema path the state is at
schemaPathOf(st) == st.schemaTokens[Len(st.schemaTokens)]

\* the errors the step records
NewErrors == SubSeq(state'.errors, Len(state.errors) + 1, Len(state'.errors))

\* the step calls validateWithState on s and v at the paths ip and sp
Calls(s, v, ip, sp) ==
  /\ Len(stack') = Len(stack) + 1
  /\ stack'[Len(stack')].schema = s
  /\ stack'[Len(stack')].instance = v
  /\ state'.instanceTokens = ip
  /\ schemaPathOf(state') = sp
  /\ NewErrors = <<>>

\* the step records the error, and only that
Records(ip, sp) ==
  /\ NewErrors = << Error(ip, sp) >>
  /\ Len(stack') <= Len(stack)

\* the i-th entry of the properties object the loop at `at` is walking
LoopEntry(keyword) == Top.schema[keyword][Top.i]

\* C8 (as claimed): in a properties-form schema at Q against a map at P, a
\* required name the instance lacks gives exactly the error {P, Q +
\* [properties, name]}; a required name it has is validated at P + [name]
\* under Q + [properties, name]; an optional name is validated under Q +
\* [optionalProperties, name] when present and gives no error when absent.
C8_Claim_RequiredAndOptional ==
  [][ /\ (Running("requiredLoop") /\ Top.i <= Len(Top.schema.properties))
        => LET name == LoopEntry("properties")[1]
               sp == Q \o <<"properties", name>>
           IN IF hasOwnProperty(Top.instance, name)
              THEN Calls(LoopEntry("properties")[2],
                         getProperty(Top.instance, name), P \o <<name>>, sp)
              ELSE Records(P, sp)
      /\ (Running("optionalLoop") /\ Top.i <= Len(Top.schema.optionalProperties))
        => LET name == LoopEntry("optionalProperties")[1]
               sp == Q \o <<"optionalProperties", name>>
           IN IF hasOwnProperty(Top.instance, name)
              THEN Calls(LoopEntry("optionalProperties")[2],
                         getProperty(Top.instance, name), P \o <<name>>, sp)
              ELSE NewErrors = <<>> /\ Len(stack') = Len(stack)
    ]_vars

\* name is a key of neither properties nor optionalProperties of s
Unlisted(s, name) ==
  /\ ~("properties" \in DOMAIN s /\ hasKey(s.properties, name))
  /\ ~("optionalProperties" \in DOMAIN s /\ hasKey(s.optionalProperties, name))

\* how many of the errors are at the instance path ip
CountAt(errors, ip) ==
  Cardinality({n \in 1..Len(errors) : errors[n].instancePath = ip})

\* C9 (as claimed): without additionalProperties: true, every instance key
\* that is listed in neither properties nor optionalProperties and is not
\* the parent's discriminator gets exactly one error at P + [key], and no
\* other key gets one; with additionalProperties: true no key is flagged.
\* (Stated for calls without error limit, which run the loop to its end.)
C9_Claim_AdditionalProperties ==
  [][ (Running("additional") /\ Unbounded(config))
        => \A n \in 1..Len(Top.instance.o) :
             LET key == Top.instance.o[n][1]
                 flagged == /\ Unlisted(Top.schema, key)
                            /\ <<key>> # Top.parentTag
                            /\ ~("additionalProperties" \in DOMAIN Top.schema
                                   /\ Top.schema.additionalProperties)
             IN CountAt(NewErrors, P \o <<key>>) = IF flagged THEN 1 ELSE 0
    ]_vars

\* C10 (as claimed): in a discriminator-form schema at Q against a map at
\* P, a missing discriminator gives only {P, Q + [discriminator]}, one that
\* is not a string only {P + [discriminator], Q + [discriminator]}, a string
\* that is no key of mapping only {P + [discriminator], Q + [mapping]}, all
\* three without consulting a mapping schema; else the instance is
\* validated against mapping[tag] under Q + [mapping, tag].
C10_Claim_Discriminator ==
  [][ (Entering("discriminator") /\ isObject(Top.instance))
        => LET name == Top.schema.discriminator
               tag == getProperty(Top.instance, name)
           IN IF ~hasOwnProperty(Top.instance, name)
              THEN Records(P, Q \o <<"discriminator">>)
              ELSE IF tag.k # "string"
              THEN Records(P \o <<name>>, Q \o <<"discriminator">>)
              ELSE IF ~hasKey(Top.schema.mapping, tag.s)
              THEN Records(P \o <<name>>, Q \o <<"mapping">>)
              ELSE Calls(getKey(Top.schema.mapping, tag.s), Top.instance,
                         P, Q \o <<"mapping", tag.s>>)
    ]_vars

\* the names the schemas use as discriminators
DiscriminatorNames == {"kind", "valueOf"}

\* the call on top was made by the discriminator form, for the tag named key
SelectedThroughMapping(key) ==
  /\ Len(stack) >= 2
  /\ stack[Len(stack) - 1].at = "discriminatorReturn"
  /\ stack[Len(stack) - 1].schema.discriminator = key

\* C11 (as claimed): an instance key that bears a discriminator's name and
\* is listed in neither properties nor optionalProperties is exempt from the
\* additional-properties check only in the schema selected directly through
\* mapping[tag] of that discriminator; in a properties-form schema validated
\* directly or nested below the selected one it is flagged, once, at
\* P + [key].  (Stated for calls without error limit.)
C11_Claim_TagExemptionScope ==
  [][ (/\ Running("additional")
       /\ Unbounded(config)
       /\ ~("additionalProperties" \in DOMAIN Top.schema
              /\ Top.schema.additionalProperties))
        => \A n \in 1..Len(Top.instance.o) :
             LET key == Top.instance.o[n][1]
             IN (key \in DiscriminatorNames /\ Unlisted(Top.schema, key))
                  => CountAt(NewErrors, P \o <<key>>)
                       = IF SelectedThroughMapping(key) THEN 0 ELSE 1
    ]_vars

-----------------------------------------------------------------------------
(* Properties of the type form *)

IntTypes == {"int8", "uint8", "int16", "uint16", "int32", "uint32"}

\* the range of each integer type: [-2^(w-1), 2^(w-1) - 1] or [0, 2^w - 1]
IntRange(type) ==
  CASE type = "int8" -> [min |-> Num(-1, 65536 - 128, FALSE), max |-> Num(0, 127, FALSE)]
    [] type = "uint8" -> [min |-> Num(0, 0, FALSE), max |-> Num(0, 255, FALSE)]
    [] type = "int16" -> [min |-> Num(-1, 65536 - 32768, FALSE), max |-> Num(0, 32767, FALSE)]
    [] type = "uint16" -> [min |-> Num(0, 0, FALSE), max |-> Num(0, 65535, FALSE)]
    [] type = "int32" -> [min |-> Num(-32768, 0, FALSE), max |-> Num(32767, 65535, FALSE)]
    [] type = "uint32" -> [min |-> Num(0, 0, FALSE), max |-> Num(65535, 65535, FALSE)]

\* a <= b on numbers without fraction
numLeq(a, b) == a.hi < b.hi \/ (a.hi = b.hi /\ a.lo <= b.lo)

\* v is a number with integer value inside the range of the type
IntegerOf(type, v) ==
  /\ v.k = "number"
  /\ ~v.half
  /\ numLeq(IntRange(type).min, v)
  /\ numLeq(v, IntRange(type).max)

TypeError1 == << Error(<<>>, <<"type">>) >>

\* C12: against a schema of an integer type validate returns no error when
\* the instance is a number with integer value inside the type's range, both
\* limits included, and otherwise exactly one error, at schemaPath [type]:
\* for the integers just outside the limits, for numbers with a fraction and
\* for values that are no numbers.
C12_IntegerTypes ==
  (pc = "done" /\ schema.type \in IntTypes)
  => /\ result = Returned(IF IntegerOf(schema.type, instance) THEN <<>> ELSE TypeError1)
     /\ \A type \in IntTypes :
          /\ ~typeRejects(type, IntRange(type).min)
          /\ ~typeRejects(type, IntRange(type).max)
          /\ typeRejects(type, Pred(IntRange(type).min))
          /\ typeRejects(type, Succ(IntRange(type).max))

\* C12 witness: uint32 has rejected 4294967296 with the one error, after
\* the same caller's call before; int8, uint8 and uint16 cases are reached
\* in the same way
C12_Witness ==
  /\ pc = "done"
  /\ schema = [type |-> "uint32"]
  /\ instance = Num(65536, 0, FALSE)
  /\ result = Returned(TypeError1)

\* uint8 against 1.5: rejected for the fraction alone
C12_WitnessFraction ==
  /\ pc = "done"
  /\ schema = [type |-> "uint8"]
  /\ instance = Num(0, 1, TRUE)
  /\ result = Returned(TypeError1)

-----------------------------------------------------------------------------
(* Properties of timestamps *)

\* C13 (as claimed): against type "timestamp" validate returns no error
\* when the instance is a string that isRFC3339 accepts, leap seconds
\* included, and the one error at [type] when it is no string or a string
\* that isRFC3339 rejects.
C13_Claim_TimestampIsRFC3339 ==
  (pc = "done" /\ schema.type = "timestamp")
  => result = Returned(IF instance.k = "string" /\ isRFC3339(instance.s)
                       THEN <<>> ELSE TypeError1)

\* the length of a month of the calendar
DaysIn(year, month) ==
  IF month \in {4, 6, 9, 11} THEN 30
  ELSE IF month # 2 THEN 31
  ELSE IF year % 400 = 0 \/ (year % 4 = 0 /\ year % 100 # 0) THEN 29
  ELSE 28

\* the fields of s are a date of the calendar and a time of day, with 60
\* allowed for the second
ValidDateTime(s) ==
  LET year == parseInt(SubSeq(s, 1, 4))
      month == parseInt(SubSeq(s, 6, 7))
      day == parseInt(SubSeq(s, 9, 10))
  IN /\ month \in 1..12
     /\ day \in 1..DaysIn(year, month)
     /\ parseInt(SubSeq(s, 12, 13)) <= 23
     /\ parseInt(SubSeq(s, 15, 16)) <= 59
     /\ parseInt(SubSeq(s, 18, 19)) <= 60

\* C14 (as claimed): isRFC3339 returns true exactly for the strings that
\* match the date-time pattern from end to end and whose fields are a valid
\* date and time: month 1..12, day 1..length of the month (February 29 in
\* leap years only), hour <= 23, minute <= 59, second <= 60; month 00, day
\* 00 and a day past the month's end are rejected.
C14_Claim_ExactlyValidDateTimes ==
  pc = "done"
  => result.value = (matchesPattern(instance.s) /\ ValidDateTime(instance.s))

-----------------------------------------------------------------------------
(* Properties of isSchema *)

\* the form keywords the data carries
SignatureOf(data) ==
  {FormKeywords[i] : i \in {j \in 1..Len(FormKeywords) : hasOwnProperty(data, FormKeywords[j])}}

\* the 13 legal rows: empty, ref, type, enum, elements, the six of the
\* properties form, values, discriminator with mapping
LegalSignatures ==
  { {}, {"ref"}, {"type"}, {"enum"}, {"elements"}, {"values"},
    {"discriminator", "mapping"} }
    \cup { p \cup a : p \in { {"properties"}, {"optionalProperties"},
                             {"properties", "optionalProperties"} },
                     a \in { {}, {"additionalProperties"} } }

AllSignatures == SUBSET {FormKeywords[i] : i \in 1..Len(FormKeywords)}

\* C15: isSchema returns true only for a map whose signature of the ten
\* form keywords is one of the 13 legal rows; for each of the other 1011
\* signatures it returns false, whatever the values of the keywords are.
C15_OnlyLegalSignatures ==
  /\ Cardinality(LegalSignatures) = 13
  /\ Cardinality(AllSignatures \ LegalSignatures) = 1011
  /\ (pc = "done" /\ result.value)
       => isObject(schema) /\ SignatureOf(schema) \in LegalSignatures

\* C15 witness: type together with elements, both well-typed, refused
C15_Witness ==
  /\ pc = "done"
  /\ schema = Obj(<< <<"type", Str("string")>>, <<"elements", Obj(<<>>)>> >>)
  /\ result.value = FALSE

\* how many of the eight form predicates hold of s
FormCount(s) ==
  Cardinality({form \in 1..8 :
    CASE form = 1 -> isEmptyForm(s)
      [] form = 2 -> isRefForm(s)
      [] form = 3 -> isTypeForm(s)
      [] form = 4 -> isEnumForm(s)
      [] form = 5 -> isElementsForm(s)
      [] form = 6 -> isPropertiesForm(s)
      [] form = 7 -> isValuesForm(s)
      [] form = 8 -> isDiscriminatorForm(s)})

\* C16: of a value that isSchema accepts exactly one of the eight form
\* predicates is true, and the branch validateWithState takes is the one of
\* that form (the empty form is the branch taken when no test succeeds).
C16_ExactlyOneForm ==
  (pc = "done" /\ result.value)
  => /\ FormCount(toSchema(schema)) = 1
     /\ isEmptyForm(toSchema(schema)) <=> formOf(toSchema(schema)) = "empty"

\* C16 witness: properties, optionalProperties and additionalProperties
\* together with the three shared keywords, accepted, of the one form
C16_Witness ==
  /\ pc = "done"
  /\ result.value
  /\ SignatureOf(schema) = {"properties", "optionalProperties", "additionalProperties"}
  /\ hasOwnProperty(schema, "definitions")
  /\ isPropertiesForm(toSchema(schema))

-----------------------------------------------------------------------------
(* Properties of isValidSchema *)

\* the values of the entries
valuesOf(entries) == {entries[i][2] : i \in 1..Len(entries)}

keysOf(entries) == {entries[i][1] : i \in 1..Len(entries)}

\* the sub-schemas directly below s, apart from its definitions
SubSchemas(s) ==
  (IF "elements" \in DOMAIN s THEN {s.elements} ELSE {})
    \cup (IF "values" \in DOMAIN s THEN {s.values} ELSE {})
    \cup valuesOf(entriesOf(s, "properties"))
    \cup valuesOf(entriesOf(s, "optionalProperties"))
    \cup valuesOf(entriesOf(s, "mapping"))

Definitions(s) == {s.definitions[name] : name \in definitionNames(s)}

\* every schema below s, at any depth
RECURSIVE Below(_)
Below(s) ==
  LET direct == SubSchemas(s) \cup Definitions(s)
  IN direct \cup UNION {Below(c) : c \in direct}

\* s without the keyword
Without(s, keyword) == [k \in DOMAIN s \ {keyword} |-> s[k]]

\* C17: isValidSchema(S) is false whenever a schema below S, at any depth
\* and under any keyword, carries definitions, an empty map included; an
\* empty definitions on S itself changes nothing, and definitions that are
\* valid themselves do not make S invalid.
C17_DefinitionsOnlyAtRoot ==
  pc = "done"
  => /\ (\E s \in Below(schema) : "definitions" \in DOMAIN s) => ~result.value
     /\ ("definitions" \in DOMAIN schema /\ schema.definitions = <<>>)
          => result.value
               = isValidSchema(Without(schema, "definitions"),
                               Without(schema, "definitions"))
     /\ (DOMAIN schema = {"definitions"}
           /\ \A s \in Definitions(schema) : isValidSchema(s, schema))
          => result.value

\* C17 witness: a root with definitions of its own, refused for the empty
\* definitions of its elements schema
C17_Witness ==
  /\ pc = "done"
  /\ schema = [definitions |-> [a |-> <<>>], elements |-> [definitions |-> <<>>]]
  /\ result.value = FALSE

\* the list is not empty and no string occurs twice in it
DistinctStrings(enum) ==
  /\ Len(enum) > 0
  /\ \A i, j \in 1..Len(enum) : enum[i] = enum[j] => i = j

\* C19: isValidSchema is false when an enum-form schema in it has an empty
\* list or one with a string more than once; an enum-form schema with a
\* non-empty list of distinct strings is as valid as it is without the enum.
C19_EnumNonEmptyDistinct ==
  pc = "done"
  => /\ (\E s \in {schema} \cup Below(schema) :
           isEnumForm(s) /\ ~DistinctStrings(s.enum)) => ~result.value
     /\ (isEnumForm(schema) /\ DistinctStrings(schema.enum))
          => result.value
               = isValidSchema(Without(schema, "enum"), Without(schema, "enum"))

\* C19 witness: the list b, a, b refused
C19_Witness ==
  /\ pc = "done"
  /\ schema = [enum |-> <<"b", "a", "b">>]
  /\ result.value = FALSE

\* C20 (as claimed): a properties-form schema whose sub-schemas are all
\* valid is refused exactly when a key occurs in both properties and
\* optionalProperties, whatever the property names are; with only one of
\* the two keywords it is not refused.
C20_Claim_DisjointKeys ==
  (/\ pc = "done"
   /\ isPropertiesForm(schema)
   /\ "definitions" \notin DOMAIN schema
   /\ \A s \in SubSchemas(schema) : isValidSchema(s, schema))
  => result.value
       = (keysOf(entriesOf(schema, "properties"))
            \cap keysOf(entriesOf(schema, "optionalProperties")) = {})

\* the verdict of isValidSchema on the schema is in, and it is true
Accepted ==
  pc = "done" /\ result.kind = "returned" /\ "value" \in DOMAIN result /\ result.value

\* C18 (as claimed): isValidSchema(S) is true only if every ref in S, the
\* definitions included, is a key listed in the definitions of the root, so
\* not when the root has no definitions; and validate, called on a schema
\* that was accepted, never looks up a definition that does not exist.
C18_Claim_RefsResolve ==
  /\ Accepted
       => \A s \in {schema} \cup Below(schema) :
            isRefForm(s) => s.ref \in definitionNames(schema)
  /\ (Running("enter") /\ isRefForm(Top.schema))
       => Top.schema.ref \in definitionNames(state.root)

\* the mapping value s of a discriminator named name is a properties-form
\* schema, not nullable, with the name among the keys of neither of its
\* properties objects
PlainVariant(s, name) ==
  /\ isPropertiesForm(s)
  /\ ~("nullable" \in DOMAIN s /\ s.nullable)
  /\ name \notin keysOf(entriesOf(s, "properties"))
  /\ name \notin keysOf(entriesOf(s, "optionalProperties"))

\* C21 (as claimed): isValidSchema is false for a discriminator-form schema
\* when a mapping value is not of the properties form, is nullable, or has
\* the discriminator's name as a key of its properties or
\* optionalProperties; it is true when every mapping value is a valid
\* properties-form schema, not nullable, that does not mention the name.
C21_Claim_MappingValues ==
  (/\ pc = "done"
   /\ isDiscriminatorForm(schema)
   /\ "definitions" \notin DOMAIN schema)
  => result.value
       = \A s \in valuesOf(schema.mapping) :
           isValidSchema(s, schema) /\ PlainVariant(s, schema.discriminator)

\* the rules a single schema s below (or at) the root has to keep:
\* definitions only on the root, a ref that is a key of the root's
\* definitions, an enum that is not empty and has no string twice, no key in
\* both properties and optionalProperties, plain mapping values
NodeOk(s, root) ==
  /\ "definitions" \in DOMAIN s => s = root
  /\ isRefForm(s) => s.ref \in definitionNames(root)
  /\ isEnumForm(s) => DistinctStrings(s.enum)
  /\ keysOf(entriesOf(s, "properties")) \cap keysOf(entriesOf(s, "optionalProperties")) = {}
  /\ isDiscriminatorForm(s)
       => \A v \in valuesOf(s.mapping) : PlainVariant(v, s.discriminator)

\* C22 (as claimed): isValidSchema(S) is true exactly when every schema
\* reachable from S through elements, values, properties,
\* optionalProperties, mapping and the root's definitions keeps all the
\* rules of a single schema; one schema breaking one, at any depth, makes
\* it false.
C22_Claim_Transitive ==
  pc = "done"
  => result.value = \A s \in {schema} \cup Below(schema) : NodeOk(s, schema)

-----------------------------------------------------------------------------
(* Properties of the three passes together *)

\* the call just finished and the one before it were calls of the same
\* predicate
CalledAgain ==
  /\ pc = "done"
  /\ "fn" \in DOMAIN result
  /\ "fn" \in DOMAIN last.result
  /\ result.fn = last.result.fn

-----------------------------------------------------------------------------
(* Properties of the paths across a ref *)

\* the sequence s begins with the sequence p
BeginsWith(s, p) == Len(s) >= Len(p) /\ SubSeq(s, 1, Len(p)) = p

\* a ref is being followed: some active call waits for its target
UnderRef == \E j \in 1..Len(stack) : stack[j].at = "refReturn"

\* the innermost call that is following a ref
InnerRef ==
  stack[CHOOSE j \in 1..Len(stack) :
          /\ stack[j].at = "refReturn"
          /\ \A k \in (j + 1)..Len(stack) : stack[k].at # "refReturn"]

\* C24: an error recorded while the target of a ref named r is validated
\* (r the innermost ref being followed) has a schemaPath that begins with
\* [definitions, r] and goes on with the tokens pushed inside the target
\* only, and an instancePath that goes on from the instance path of the
\* referring call; following the ref adds the frame [definitions, r] and
\* leaves the instance path alone; when the ref returns the frames are those
\* the referring call began with, and every error is recorded under the
\* path of the call that records it.
C24_RefFrames ==
  [][ stack # <<>> =>
        /\ \A n \in 1..Len(NewErrors) :
             /\ BeginsWith(NewErrors[n].schemaPath, Q)
             /\ UnderRef =>
                  /\ BeginsWith(NewErrors[n].schemaPath,
                                <<"definitions", InnerRef.schema.ref>>)
                  /\ BeginsWith(NewErrors[n].instancePath,
                                InnerRef.entry.instanceTokens)
        /\ (Entering("ref") /\ Len(stack') > Len(stack))
             => /\ state'.schemaTokens
                     = Append(state.schemaTokens, <<"definitions", Top.schema.ref>>)
                /\ state'.instanceTokens = state.instanceTokens
        /\ Running("refReturn")
             => /\ state'.schemaTokens = Top.entry.schemaTokens
                /\ state'.instanceTokens = Top.entry.instanceTokens
    ]_vars

\* C24 witness: name behind the ref d, age in place: the error of name is at
\* [definitions, d, type] with instance path [name], the error of age, recorded
\* after the ref has returned, at [properties, age, type]
C24_Witness ==
  /\ pc = "done"
  /\ schema = PersonRef
  /\ result = Returned(<< Error(<<"name">>, <<"definitions", "d", "type">>),
                          Error(<<"age">>, <<"properties", "age", "type">>) >>)

-----------------------------------------------------------------------------
(* Properties of the elements form *)

\* the call on top goes on in its body, at loop index i, recording nothing
GoesOn(i) ==
  /\ Len(stack') = Len(stack)
  /\ stack'[Len(stack')].i = i
  /\ NewErrors = <<>>

\* C25: in an elements-form schema at Q against an instance at P, an
\* instance that is no sequence gives exactly the error {P, Q + [elements]};
\* of a sequence the elements are taken from the first on, one after the
\* other, the one at index i (counted from zero) validated against the
\* sub-schema at instance path P + [i as a string] under Q + [elements];
\* the loop itself records nothing, so an empty sequence gives no error.
C25_Elements ==
  [][ /\ Entering("elements")
        => IF Top.instance.k = "array"
           THEN GoesOn(1)
           ELSE Records(P, Q \o <<"elements">>)
      /\ Running("elementsLoop")
        => IF Top.i <= Len(Top.instance.a)
           THEN Calls(Top.schema.elements, Top.instance.a[Top.i],
                      P \o <<ToString(Top.i - 1)>>, Q \o <<"elements">>)
           ELSE /\ NewErrors = <<>>
                /\ Len(stack') = Len(stack) - 1
                /\ state'.instanceTokens = P
                /\ schemaPathOf(state') = Q
      /\ Running("elementsNext") => GoesOn(Top.i + 1)
    ]_vars

\* C25 witness: elements:{type:string} against three nulls without limits
\* has returned the errors at 0, 1, 2, in this order
C25_Witness ==
  /\ pc = "done"
  /\ schema = ElementsString
  /\ instance = Nulls(3)
  /\ config = <<>>
  /\ result = Returned(<< Error(<<"0">>, <<"elements", "type">>),
                          Error(<<"1">>, <<"elements", "type">>),
                          Error(<<"2">>, <<"elements", "type">>) >>)

-----------------------------------------------------------------------------
(* Properties of the empty form *)

\* C26 (as claimed): an empty-form schema matches exactly the values that
\* are not null: for every instance of another kind (boolean, number,
\* string, sequence, map) validate returns the empty list, and null is
\* accepted only when the schema has nullable: true.
C26_Claim_EmptyMatchesNonNull ==
  (pc = "done" /\ isEmptyForm(schema))
  => /\ result.kind = "returned"
     /\ (result.errors = <<>>) = (~isNull(instance) \/ nullable(schema))

\* C26 (amended): an empty-form schema matches every value: validate
\* returns the empty list for every instance, null included, whether or
\* not the schema has nullable: true.
C26_EmptyMatchesAll ==
  (pc = "done" /\ isEmptyForm(schema)) => result = Returned(<<>>)

\* C26 witness: the schema {} has accepted null
C26_Witness ==
  /\ pc = "done"
  /\ schema = <<>>
  /\ isNull(instance)
  /\ result = Returned(<<>>)

-----------------------------------------------------------------------------
(* Properties of termination *)

\* following refs from the definition named from leads, through definitions
\* that are refs themselves, to the definition named to in at most n steps
RECURSIVE RefChain(_, _, _, _)
RefChain(root, from, to, n) ==
  /\ n > 0
  /\ from \in definitionNames(root)
  /\ isRefForm(root.definitions[from])
  /\ \/ root.definitions[from].ref = to
     \/ RefChain(root, root.definitions[from].ref, to, n - 1)

\* the schema has a cycle made of refs to refs only
RefCycle(root) ==
  \E name \in definitionNames(root) :
    RefChain(root, name, name, Cardinality(definitionNames(root)))

\* the call in progress is one the claim says comes to an end: the schema is
\* accepted by isSchema and isValidSchema, and maxDepth is at least 1 or the
\* schema has no cycle of refs
MustEnd ==
  /\ pc # "idle"
  /\ isSchema(toData(schema)) /\ isValidSchema(schema, schema)
  /\ ~UnboundedDepth(config) \/ ~RefCycle(schema)

\* C27 (as claimed): with maxDepth N >= 1 validate comes to an end on every
\* schema that isSchema and isValidSchema accept, cycles included, and
\* every instance: it always has a next step until it has either returned a
\* list of errors or raised MaxDepthExceededError; with maxDepth 0 the same
\* holds of every schema without a cycle of refs, and on the schema whose
\* definition refers to itself the call never ends.
C27_Claim_Terminates ==
  /\ (MustEnd /\ pc # "done") => CanStep
  /\ (MustEnd /\ pc = "done") => result.kind \in {"returned", "MaxDepthExceededError"}
  /\ (pc # "idle" /\ UnboundedDepth(config) /\ RefCycle(schema)
        /\ ~(nullable(schema) /\ isNull(instance)))
       => pc = "run"

-----------------------------------------------------------------------------
(* Properties of the token stacks *)

\* the step is a normal return of the call on top
ReturnsNormally ==
  /\ stack # <<>>
  /\ Len(stack') = Len(stack) - 1
  /\ pc' \in {"run", "ret"}

\* C28: whenever a call of validateWithState returns normally, by any
\* branch, instanceTokens and schemaTokens are exactly what they were when
\* the call began: the same frames with the same tokens; schemaTokens never
\* has fewer than one frame; and when the outermost call returns, so after a
\* validate that was not aborted, instanceTokens is [] and schemaTokens [[]].
C28_PushPopDiscipline ==
  /\ [](Len(state.schemaTokens) >= 1)
  /\ [][ ReturnsNormally
           => /\ state'.instanceTokens = Top.entry.instanceTokens
              /\ state'.schemaTokens = Top.entry.schemaTokens
              /\ pc' = "ret" => /\ state'.instanceTokens = <<>>
                                /\ state'.schemaTokens = <<(<<>>)>>
       ]_vars
  /\ []((pc = "done" /\ Unbounded(config) /\ result.kind = "returned")
          => state.instanceTokens = <<>> /\ state.schemaTokens = <<(<<>>)>>)

\* C28 witness: the discriminator schema with nested properties and
\* elements has returned its errors without limit, and both stacks are as
\* they were before the call
C28_Witness ==
  /\ pc = "done"
  /\ schema = TaggedNested
  /\ Unbounded(config)
  /\ result.kind = "returned"
  /\ Len(result.errors) >= 2
  /\ state.instanceTokens = <<>>
  /\ state.schemaTokens = <<(<<>>)>>

-----------------------------------------------------------------------------
(* Properties of the two limits together *)

\* C29: the two limits take effect in the order of the walk.  When the call
\* without error limit has raised MaxDepthExceededError after recording k
\* errors, the call before it, on the same schema and instance with the
\* same maxDepth and with maxErrors = m > 0, has returned exactly the first
\* m of these errors if m <= k (the m-th error came before the ref that hits
\* the depth limit), and has raised MaxDepthExceededError, its fewer than m
\* errors discarded, if m > k; and whenever MaxDepthExceededError is raised
\* under an error limit, fewer errors than the limit were recorded.
C29_LimitsInWalkOrder ==
  /\ (/\ pc = "done"
      /\ Unbounded(config)
      /\ result.kind = "MaxDepthExceededError"
      /\ last.result.kind # "none"
      /\ ~Unbounded(last.config))
     => IF last.config[1].maxErrors <= Len(state.errors)
        THEN last.result = Returned(SubSeq(state.errors, 1, last.config[1].maxErrors))
        ELSE last.result = [kind |-> "MaxDepthExceededError", errors |-> <<>>]
  /\ (result.kind = "MaxDepthExceededError" /\ ~Unbounded(config))
       => Len(state.errors) < config[1].maxErrors

\* C29 witness: name is validated in place, age is behind a ref, maxDepth
\* is 1.  With maxErrors 1 the call returned the error of name; the call
\* without error limit recorded it too and then raised at the ref.
C29_Witness ==
  /\ pc = "done"
  /\ schema = PersonRefLast
  /\ last.config = << [maxDepth |-> 1, maxErrors |-> 1] >>
  /\ last.result = Returned(<< Error(<<"name">>, <<"properties", "name", "type">>) >>)
  /\ config = << [maxDepth |-> 1, maxErrors |-> 0] >>
  /\ result.kind = "MaxDepthExceededError"
  /\ Len(state.errors) = 1

-----------------------------------------------------------------------------
(* Properties of the order of the errors *)

\* where the entry of the given key stands among the entries
KeyIndex(entries, key) == CHOOSE i \in 1..Len(entries) : entries[i][1] = key

\* the place of an error of a properties-form schema validated at the root
\* against a map: 1 and the position in properties when it stems from a
\* required property, 2 and the position in optionalProperties when it
\* stems from an optional one, 3 and the position of the key in the instance
\* when it flags an additional property
Place(e) ==
  LET key == IF e.schemaPath # <<>>
                  /\ e.schemaPath[1] \in {"properties", "optionalProperties"}
             THEN e.schemaPath[2]
             ELSE e.instancePath[1]
  IN IF e.schemaPath = <<>> THEN <<3, KeyIndex(instance.o, key)>>
     ELSE IF hasKey(entriesOf(schema, "properties"), key)
     THEN <<1, KeyIndex(schema.properties, key)>>
     ELSE <<2, KeyIndex(schema.optionalProperties, key)>>

\* the place a comes no later than the place b
NoLater(a, b) == a[1] < b[1] \/ (a[1] = b[1] /\ a[2] <= b[2])

\* C30: the errors are listed in the order of the walk.  For a
\* properties-form schema and a map instance the errors of the required
\* properties come first, in the order of properties, those of one property
\* together; then those of the optional properties, in the order of
\* optionalProperties; then the additional properties, in the order of the
\* instance's keys.  No step of a call reorders or removes an error already
\* recorded, and the list returned is the list recorded.
C30_ErrorOrder ==
  /\ []((isPropertiesForm(schema) /\ isObject(instance))
          => \A i, j \in 1..Len(state.errors) :
               i < j => NoLater(Place(state.errors[i]), Place(state.errors[j])))
  /\ [][pc = "run" => BeginsWith(state'.errors, state.errors)]_vars
  /\ []((pc = "done" /\ result.kind = "returned") => result.errors = state.errors)

\* C30 witness: the instance lists zip, nick, age, name, kind; the errors
\* follow the schema: name (both elements), age, nick (both elements), then
\* zip and kind
C30_Witness ==
  /\ pc = "done"
  /\ schema = PersonLists
  /\ result = Returned(
       << Error(<<"name", "0">>, <<"properties", "name", "elements", "type">>),
          Error(<<"name", "1">>, <<"properties", "name", "elements", "type">>),
          Error(<<"age">>, <<"properties", "age", "type">>),
          Error(<<"nick", "0">>, <<"optionalProperties", "nick", "elements", "type">>),
          Error(<<"nick", "1">>, <<"optionalProperties", "nick", "elements", "type">>),
          Error(<<"zip">>, <<>>),
          Error(<<"kind">>, <<>>) >>)

====
